---- MODULE Spec2Model ----
(***************************************************************************)
(* Hermes4ArXiv: the batch analysis pipeline.                              *)
(*   - FailureTracker and MultiAIAnalyzer._analyze_with_fallback           *)
(*     (src/src/ai/multi_analyzer.py)              specification Spec      *)
(*   - BatchCoordinator._run_stage1_ranking, window construction           *)
(*     (src/src/ai/batch_coordinator.py)           specification SpecWindows*)
(*   - BatchCoordinator._run_stage1_ranking, score aggregation             *)
(*                                                 specification SpecRank  *)
(*   - BatchCoordinator._parse_batch_analysis and the tail of              *)
(*     _run_stage2_deep_analysis                   specification SpecDemux *)
(***************************************************************************)
EXTENDS Integers, Sequences, FiniteSets, TLC

VARIABLES
    \* ---- MultiAIAnalyzer / FailureTracker ----
    max_consecutive_failures,   \* FailureTracker.max_consecutive_failures
    fallback_order,             \* MultiAIAnalyzer.fallback_order
    analyzers,                  \* the keys of MultiAIAnalyzer.analyzers
    failure_tracker,            \* failure_counts, last_failure_time, disabled_providers
    clock,                      \* time.time()
    call,                       \* one _analyze_with_fallback activation per caller
    streak,                     \* history: failures since the last success, see C1
    \* ---- Stage 1 window construction ----
    win,
    \* ---- Stage 1 ranking / aggregation ----
    rank,
    \* ---- Stage 2 de-multiplexing ----
    demux,
    \* ---- MultiAIAnalyzer configuration ----
    config,                     \* PREFERRED_AI_MODEL and the *_API_KEY entries
    raises,                     \* the kind of exception each backend raises
    \* ---- Stage 2 promotion, full-text extraction, returned list ----
    promo,
    \* ---- ParallelPaperAnalyzer ----
    pool,
    \* ---- DeepSeekAnalyzer.analyze_papers_batch under @retry ----
    retry

vars == <<max_consecutive_failures, fallback_order, analyzers, failure_tracker,
          clock, call, streak, win, rank, demux,
          config, raises, promo, pool, retry>>

selVars == <<max_consecutive_failures, fallback_order, analyzers, failure_tracker,
             clock, call, streak, config, raises>>

cfgVars == <<config, raises>>

coordVars == <<promo, pool, retry>>

\* Values of the parts a specification does not use.
Idle == [pc |-> "unused"]

Range(s) == {s[i] : i \in 1..Len(s)}

\* the parts of the coordinator and the executor a specification does not
\* use
CoordIdle ==
    /\ promo = Idle
    /\ pool = Idle
    /\ retry = Idle

Stage1Idle ==
    /\ win = Idle
    /\ rank = Idle
    /\ demux = Idle

Max2(a, b) == IF a >= b THEN a ELSE b

(***************************************************************************)
(* FailureTracker                                                          *)
(* The tracker holds no lock.  Called by one thread at a time, a method    *)
(* runs to completion: the operators record_failure and record_success.    *)
(* Called by the worker threads of the parallel analyzer through           *)
(* _analyze_with_fallback, the statements of the methods of several        *)
(* threads interleave: the actions of Spec make one access to the tracker  *)
(* each.                                                                   *)
(***************************************************************************)
\* the members of AIProvider for which _initialize_analyzers builds an analyzer
Providers == {"claude", "gemini", "deepseek", "openai"}

GEMINI == "gemini"

\* bounds of the model
MaxK == 2          \* max_consecutive_failures ranges over 1..MaxK
ResetTime == 1     \* reset_time, in clock ticks
MaxTime == 2       \* the clock stops at MaxTime
NumCallers == 2    \* callers of _analyze_with_fallback (worker threads)
MaxCalls == 3      \* calls of _analyze_with_fallback in a run, one per paper

reset_time == ResetTime

Callers == 1..NumCallers

\* last_failure_time is a defaultdict: a provider that never failed has no key
NoTime == -1

\* the exceptions a backend raises: a timeout, rate limit or connection
\* failure, or an auth failure, content-policy rejection or bad model name
ErrorKinds == {"transient", "permanent"}

AllTransient == [p \in Providers |-> "transient"]

\* the configuration dict: PREFERRED_AI_MODEL, the providers p with a
\* <P>_API_KEY entry, those of them whose key has at most 10 characters,
\* AI_FALLBACK_ORDER (<<>> when not set) and API_RETRY_TIMES
NoConfig ==
    [PREFERRED_AI_MODEL |-> "", API_KEYS |-> {}, SHORT_KEYS |-> {},
     AI_FALLBACK_ORDER |-> <<>>, API_RETRY_TIMES |-> 3]

NewTracker ==
    [failure_counts     |-> [p \in Providers |-> 0],
     last_failure_time  |-> [p \in Providers |-> NoTime],
     disabled_providers |-> {}]

\* the disabling test of record_failure
ReachedMaxStrict(count, max) == count > max

ReachedMax(count, max) == count >= max

\* the test of record_failure that never finds the window elapsed
ExpiredNever(tr, provider, current_time) == FALSE

\* provider in self.last_failure_time and
\* current_time - self.last_failure_time[provider] > self.reset_time
Expired(tr, provider, current_time) ==
    /\ tr.last_failure_time[provider] # NoTime
    /\ current_time - tr.last_failure_time[provider] > reset_time

\* record_failure(provider) at time now to completion
record_failure(tr, provider, now, max) ==
    LET c0 == IF Expired(tr, provider, now) THEN 0 ELSE tr.failure_counts[provider]
        c1 == c0 + 1
    IN  [failure_counts     |-> [tr.failure_counts EXCEPT ![provider] = c1],
         last_failure_time  |-> [tr.last_failure_time EXCEPT ![provider] = now],
         disabled_providers |-> IF ReachedMax(c1, max)
                                  THEN tr.disabled_providers \cup {provider}
                                  ELSE tr.disabled_providers]

\* record_success(provider) to completion
record_success(tr, provider) ==
    [tr EXCEPT !.failure_counts[provider] = 0,
               !.disabled_providers = @ \ {provider}]

\* is_disabled(provider)
is_disabled(tr, provider) == provider \in tr.disabled_providers

(***************************************************************************)
(* MultiAIAnalyzer._analyze_with_fallback                                  *)
(***************************************************************************)
\* the provider the sweep does not touch
SweepExemptNone(provider) == FALSE

SweepExempt(provider) == provider = GEMINI

\* _reset_some_failures to completion: each provider of
\* disabled_providers.copy() is handled independently of the others
_reset_some_failures(tr, max) ==
    LET touched == {p \in tr.disabled_providers : ~SweepExempt(p)}
        newCount(p) == Max2(0, tr.failure_counts[p] - 1)
    IN  [tr EXCEPT
           !.failure_counts = [p \in Providers |->
                IF p \in touched THEN newCount(p) ELSE tr.failure_counts[p]],
           !.disabled_providers =
                @ \ {p \in touched : newCount(p) < max}]

RECURSIVE FilterSeq(_, _)
FilterSeq(s, keep) ==
    IF s = <<>> THEN <<>>
    ELSE IF Head(s) \in keep THEN <<Head(s)>> \o FilterSeq(Tail(s), keep)
         ELSE FilterSeq(Tail(s), keep)

\* the dict returned when the loop ends without a success
NoneResult == [provider |-> "none", analysis |-> "None"]

ExhaustionResult == [provider |-> "error", analysis |-> "error_analysis"]

NoResult == [provider |-> "", analysis |-> ""]

\* the call ends with the KeyError of disabled_providers.remove
RaisedKeyError == [provider |-> "raised", analysis |-> "KeyError"]

\* BaseAIAnalyzer.is_available: bool(api_key and len(api_key) > 10)
is_available(cfg, provider) == provider \notin cfg.SHORT_KEYS

\* what analyzer.analyze_paper hands back without raising: an analysis, or
\* None when 'for attempt in range(self.retry_times)' ends without return
\* or raise: no attempt at all (retry_times = 0), or GeminiAnalyzer with
\* every attempt rejected by _validate_response
Returned(provider, retry_times) ==
    IF retry_times = 0 THEN {"None"}
    ELSE IF provider = GEMINI THEN {"analysis", "None"}
    ELSE {"analysis"}

\* the locals of one activation of _analyze_with_fallback and of the tracker
\* method it is in; calls counts the calls the caller has made; j is the position of the list comprehension in
\* fallback_order, copy what is left of disabled_providers.copy(), provider
\* the provider of the sweep, count a loaded counter; answered are the
\* providers whose analyze_paper returned, recorded the record_success and
\* record_failure calls that have returned
IdleCall ==
    [pc |-> "idle", calls |-> 0,
     available_providers |-> <<>>, j |-> 1, swept |-> FALSE,
     copy |-> {}, provider |-> "", count |-> 0, current_time |-> 0, idx |-> 1,
     attempted_providers |-> <<>>, answered |-> <<>>, recorded |-> <<>>,
     last_error |-> "", result |-> NoResult]

\* the calls of _analyze_with_fallback made so far
CallsStarted ==
    LET sum[k \in 0..NumCallers] ==
            IF k = 0 THEN 0 ELSE sum[k - 1] + call[k].calls
    IN  sum[NumCallers]

\* the provider caller c has a record_success or record_failure under way
\* for, "" when it has none
Recording(cl) ==
    IF cl.pc \in {"rs_test", "rs_remove", "rf_time", "rf_check", "rf_reset",
                  "rf_load", "rf_store", "rf_stime", "rf_max", "rf_add"}
      THEN cl.available_providers[cl.idx] ELSE ""

\* streak[provider] when caller c enters record_success: -2 when a call of
\* another caller for the provider is under way
StreakOnSuccess(c, provider) ==
    IF \E d \in Callers \ {c} : Recording(call[d]) = provider THEN -2
    ELSE IF streak[provider] = -2 THEN -1
    ELSE streak[provider]

\* streak[provider] when caller c enters record_failure: -2 when a
\* record_success of another caller for the provider is under way
StreakOnFailure(c, provider) ==
    IF \E d \in Callers \ {c} :
           Recording(call[d]) = provider /\ call[d].pc \in {"rs_test", "rs_remove"}
      THEN -2
    ELSE streak[provider]

\* streak[provider] when a record_success returns
StreakAfterSuccess(provider) == IF streak[provider] = -2 THEN -2 ELSE 0

\* streak[provider] when a record_failure returns
StreakAfterFailure(provider) ==
    IF streak[provider] < 0 THEN streak[provider] ELSE streak[provider] + 1

\* streak[provider] when the counter is stored by the reset of
\* record_failure or by the sweep
StreakCut(provider) == IF streak[provider] = -2 THEN -2 ELSE -1

\* _analyze_with_fallback is entered for the next paper
StartCall(c) ==
    /\ call[c].pc = "idle"
    /\ CallsStarted < MaxCalls
    /\ call' = [call EXCEPT ![c].pc = "list", ![c].calls = @ + 1]
    /\ UNCHANGED <<max_consecutive_failures, fallback_order, analyzers,
                   failure_tracker, clock, streak, win, rank, demux,
                   cfgVars, coordVars>>

\* the list comprehension building available_providers takes the next
\* provider of fallback_order; after the last one the sweep follows when
\* the first list is empty, else the for loop
ReadCandidate(c) ==
    /\ call[c].pc = "list"
    /\ LET cl       == call[c]
           provider == fallback_order[cl.j]
           keep     == /\ provider \in analyzers
                       /\ is_available(config, provider)
                       /\ ~is_disabled(failure_tracker, provider)
           avail    == IF keep THEN Append(cl.available_providers, provider)
                       ELSE cl.available_providers
           last     == cl.j = Len(fallback_order)
       IN  call' = [call EXCEPT
               ![c].available_providers = avail,
               ![c].j = IF last THEN 1 ELSE @ + 1,
               ![c].pc = IF ~last THEN "list"
                         ELSE IF avail = <<>> /\ ~cl.swept THEN "sweep"
                         ELSE "loop"]
    /\ UNCHANGED <<max_consecutive_failures, fallback_order, analyzers,
                   failure_tracker, clock, streak, win, rank, demux,
                   cfgVars, coordVars>>

\* where _reset_some_failures goes on after a provider: the next provider of
\* the copy, or the second list comprehension
SweepGoesOn(cl) == IF cl.copy = {} THEN "list" ELSE "sweep_load"

\* _reset_some_failures: for provider in disabled_providers.copy(), the
\* providers the loop body skips left out
SweepCopy(c) ==
    /\ call[c].pc = "sweep"
    /\ LET copy == {p \in failure_tracker.disabled_providers : ~SweepExempt(p)}
       IN  call' = [call EXCEPT ![c].swept = TRUE, ![c].copy = copy,
                       ![c].pc = IF copy = {} THEN "list" ELSE "sweep_load"]
    /\ UNCHANGED <<max_consecutive_failures, fallback_order, analyzers,
                   failure_tracker, clock, streak, win, rank, demux,
                   cfgVars, coordVars>>

\* the loop takes a provider of the copy, in the order of the set, and loads
\* failure_counts[provider]
SweepLoad(c) ==
    /\ call[c].pc = "sweep_load"
    /\ \E provider \in call[c].copy :
         call' = [call EXCEPT
             ![c].provider = provider,
             ![c].copy = @ \ {provider},
             ![c].count = failure_tracker.failure_counts[provider],
             ![c].pc = "sweep_store"]
    /\ UNCHANGED <<max_consecutive_failures, fallback_order, analyzers,
                   failure_tracker, clock, streak, win, rank, demux,
                   cfgVars, coordVars>>

\* failure_counts[provider] = max(0, failure_counts[provider] - 1): the store
SweepStore(c) ==
    /\ call[c].pc = "sweep_store"
    /\ failure_tracker' = [failure_tracker EXCEPT
           !.failure_counts[call[c].provider] = Max2(0, call[c].count - 1)]
    /\ call' = [call EXCEPT ![c].count = 0, ![c].pc = "sweep_test"]
    /\ streak' = [streak EXCEPT ![call[c].provider] = StreakCut(call[c].provider)]
    /\ UNCHANGED <<max_consecutive_failures, fallback_order, analyzers, clock,
                   win, rank, demux, cfgVars, coordVars>>

\* if failure_counts[provider] < max_consecutive_failures
SweepTest(c) ==
    /\ call[c].pc = "sweep_test"
    /\ call' = [call EXCEPT
           ![c].pc = IF failure_tracker.failure_counts[call[c].provider]
                           < max_consecutive_failures
                       THEN "sweep_remove" ELSE SweepGoesOn(call[c]),
           ![c].provider = IF failure_tracker.failure_counts[call[c].provider]
                                 < max_consecutive_failures
                             THEN @ ELSE ""]
    /\ UNCHANGED <<max_consecutive_failures, fallback_order, analyzers,
                   failure_tracker, clock, streak, win, rank, demux,
                   cfgVars, coordVars>>

\* disabled_providers.remove(provider); KeyError when another thread has
\* removed the provider: _reset_some_failures is called outside the try
\* block and the exception leaves _analyze_with_fallback
SweepRemove(c) ==
    /\ call[c].pc = "sweep_remove"
    /\ IF call[c].provider \in failure_tracker.disabled_providers
         THEN /\ failure_tracker' = [failure_tracker EXCEPT
                     !.disabled_providers = @ \ {call[c].provider}]
              /\ call' = [call EXCEPT ![c].provider = "",
                                      ![c].pc = SweepGoesOn(call[c])]
         ELSE /\ failure_tracker' = failure_tracker
              /\ call' = [call EXCEPT ![c].provider = "", ![c].copy = {},
                                      ![c].pc = "done",
                                      ![c].result = RaisedKeyError]
    /\ UNCHANGED <<max_consecutive_failures, fallback_order, analyzers, clock,
                   streak, win, rank, demux, cfgVars, coordVars>>

\* for provider in available_providers: ... await analyzer.analyze_paper(...)
Invoke(c) ==
    /\ call[c].pc = "loop"
    /\ call[c].idx <= Len(call[c].available_providers)
    /\ call' = [call EXCEPT ![c].pc = "await",
                            ![c].attempted_providers =
                                Append(@, call[c].available_providers[call[c].idx])]
    /\ UNCHANGED <<max_consecutive_failures, fallback_order, analyzers,
                   failure_tracker, clock, streak, win, rank, demux,
                   cfgVars, coordVars>>

\* the awaited call returns and record_success is entered:
\* failure_counts[provider] = 0
BackendReturns(c) ==
    /\ call[c].pc = "await"
    /\ LET provider == call[c].available_providers[call[c].idx]
       IN  /\ \E r \in Returned(provider, config.API_RETRY_TIMES) :
                call' = [call EXCEPT ![c].pc = "rs_test",
                           ![c].answered = Append(@, provider),
                           ![c].result = [provider |-> provider, analysis |-> r]]
           /\ failure_tracker' = [failure_tracker EXCEPT
                                     !.failure_counts[provider] = 0]
           /\ streak' = [streak EXCEPT ![provider] = StreakOnSuccess(c, provider)]
    /\ UNCHANGED <<max_consecutive_failures, fallback_order, analyzers, clock,
                   win, rank, demux, cfgVars, coordVars>>

\* record_success: if provider in self.disabled_providers; when it is not,
\* record_success returns and the call returns the result
RsTest(c) ==
    /\ call[c].pc = "rs_test"
    /\ LET provider == call[c].available_providers[call[c].idx]
       IN  IF is_disabled(failure_tracker, provider)
             THEN /\ call' = [call EXCEPT ![c].pc = "rs_remove"]
                  /\ streak' = streak
             ELSE /\ call' = [call EXCEPT ![c].pc = "done",
                                 ![c].recorded = Append(@, <<provider, "success">>)]
                  /\ streak' = [streak EXCEPT ![provider] = StreakAfterSuccess(provider)]
    /\ UNCHANGED <<max_consecutive_failures, fallback_order, analyzers,
                   failure_tracker, clock, win, rank, demux, cfgVars, coordVars>>

\* record_success: self.disabled_providers.remove(provider); KeyError when
\* another thread has removed the provider: the except branch of the for
\* loop takes it for a failure of the backend
RsRemove(c) ==
    /\ call[c].pc = "rs_remove"
    /\ LET provider == call[c].available_providers[call[c].idx]
       IN  IF is_disabled(failure_tracker, provider)
             THEN /\ failure_tracker' = [failure_tracker EXCEPT
                         !.disabled_providers = @ \ {provider}]
                  /\ call' = [call EXCEPT ![c].pc = "done",
                                 ![c].recorded = Append(@, <<provider, "success">>)]
                  /\ streak' = [streak EXCEPT ![provider] = StreakAfterSuccess(provider)]
             ELSE /\ failure_tracker' = failure_tracker
                  /\ call' = [call EXCEPT ![c].pc = "rf_time",
                                 ![c].last_error = "KeyError",
                                 ![c].result = NoResult]
                  /\ streak' = [streak EXCEPT ![provider] = StreakOnFailure(c, provider)]
    /\ UNCHANGED <<max_consecutive_failures, fallback_order, analyzers, clock,
                   win, rank, demux, cfgVars, coordVars>>

\* the awaited call raises: except Exception as e: last_error = e
BackendRaises(c) ==
    /\ call[c].pc = "await"
    /\ LET provider == call[c].available_providers[call[c].idx]
       IN  /\ call' = [call EXCEPT ![c].pc = "rf_time",
                                   ![c].last_error = raises[provider]]
           /\ streak' = [streak EXCEPT ![provider] = StreakOnFailure(c, provider)]
    /\ UNCHANGED <<max_consecutive_failures, fallback_order, analyzers,
                   failure_tracker, clock, win, rank, demux,
                   cfgVars, coordVars>>

\* record_failure(provider) is entered: current_time = time.time()
RfReadTime(c) ==
    /\ call[c].pc = "rf_time"
    /\ call' = [call EXCEPT ![c].pc = "rf_check", ![c].current_time = clock]
    /\ UNCHANGED <<max_consecutive_failures, fallback_order, analyzers,
                   failure_tracker, clock, streak, win, rank, demux,
                   cfgVars, coordVars>>

\* if provider in last_failure_time and
\*    current_time - last_failure_time[provider] > reset_time
RfCheckReset(c) ==
    /\ call[c].pc = "rf_check"
    /\ LET provider == call[c].available_providers[call[c].idx]
           expired  == Expired(failure_tracker, provider, call[c].current_time)
       IN  /\ call' = [call EXCEPT
                  ![c].pc = IF expired THEN "rf_reset" ELSE "rf_load"]
           /\ streak' = [streak EXCEPT ![provider] =
                             IF expired THEN StreakCut(provider) ELSE @]
    /\ UNCHANGED <<max_consecutive_failures, fallback_order, analyzers,
                   failure_tracker, clock, win, rank, demux, cfgVars, coordVars>>

\* failure_counts[provider] = 0
RfResetCount(c) ==
    /\ call[c].pc = "rf_reset"
    /\ failure_tracker' = [failure_tracker EXCEPT
           !.failure_counts[call[c].available_providers[call[c].idx]] = 0]
    /\ call' = [call EXCEPT ![c].pc = "rf_load"]
    /\ UNCHANGED <<max_consecutive_failures, fallback_order, analyzers, clock,
                   streak, win, rank, demux, cfgVars, coordVars>>

\* failure_counts[provider] += 1: the load
RfLoadCount(c) ==
    /\ call[c].pc = "rf_load"
    /\ call' = [call EXCEPT
           ![c].pc = "rf_store",
           ![c].count = failure_tracker.failure_counts[
                            call[c].available_providers[call[c].idx]]]
    /\ UNCHANGED <<max_consecutive_failures, fallback_order, analyzers,
                   failure_tracker, clock, streak, win, rank, demux,
                   cfgVars, coordVars>>

\* failure_counts[provider] += 1: the store
RfStoreCount(c) ==
    /\ call[c].pc = "rf_store"
    /\ failure_tracker' = [failure_tracker EXCEPT
           !.failure_counts[call[c].available_providers[call[c].idx]] =
               call[c].count + 1]
    /\ call' = [call EXCEPT ![c].pc = "rf_stime", ![c].count = 0]
    /\ UNCHANGED <<max_consecutive_failures, fallback_order, analyzers, clock,
                   streak, win, rank, demux, cfgVars, coordVars>>

\* last_failure_time[provider] = current_time
RfStoreTime(c) ==
    /\ call[c].pc = "rf_stime"
    /\ failure_tracker' = [failure_tracker EXCEPT
           !.last_failure_time[call[c].available_providers[call[c].idx]] =
               call[c].current_time]
    /\ call' = [call EXCEPT ![c].pc = "rf_max", ![c].current_time = 0]
    /\ UNCHANGED <<max_consecutive_failures, fallback_order, analyzers, clock,
                   streak, win, rank, demux, cfgVars, coordVars>>

\* the loop that passes over the candidate after a failed one
FailureRecordedSkipping(cl) ==
    [cl EXCEPT !.pc = "loop", !.idx = @ + 2,
               !.recorded = Append(@, <<cl.available_providers[cl.idx], "failure">>)]

\* the call record after record_failure has returned: continue
FailureRecorded(cl) ==
    [cl EXCEPT !.pc = "loop", !.idx = @ + 1,
               !.recorded = Append(@, <<cl.available_providers[cl.idx], "failure">>)]

\* if failure_counts[provider] >= max_consecutive_failures; when it is not,
\* record_failure returns
RfCheckMax(c) ==
    /\ call[c].pc = "rf_max"
    /\ LET provider == call[c].available_providers[call[c].idx]
       IN  IF ReachedMax(failure_tracker.failure_counts[provider],
                         max_consecutive_failures)
             THEN /\ call' = [call EXCEPT ![c].pc = "rf_add"]
                  /\ streak' = streak
             ELSE /\ call' = [call EXCEPT ![c] = FailureRecorded(call[c])]
                  /\ streak' = [streak EXCEPT ![provider] = StreakAfterFailure(provider)]
    /\ UNCHANGED <<max_consecutive_failures, fallback_order, analyzers,
                   failure_tracker, clock, win, rank, demux, cfgVars, coordVars>>

\* disabled_providers.add(provider), and record_failure returns
RfDisable(c) ==
    /\ call[c].pc = "rf_add"
    /\ LET provider == call[c].available_providers[call[c].idx]
       IN  /\ failure_tracker' = [failure_tracker EXCEPT
                  !.disabled_providers = @ \cup {provider}]
           /\ call' = [call EXCEPT ![c] = FailureRecorded(call[c])]
           /\ streak' = [streak EXCEPT ![provider] = StreakAfterFailure(provider)]
    /\ UNCHANGED <<max_consecutive_failures, fallback_order, analyzers, clock,
                   win, rank, demux, cfgVars, coordVars>>

\* the loop ends without a success: the error dict is returned
Exhaust(c) ==
    /\ call[c].pc = "loop"
    /\ call[c].idx > Len(call[c].available_providers)
    /\ call' = [call EXCEPT ![c].pc = "done", ![c].result = ExhaustionResult]
    /\ UNCHANGED <<max_consecutive_failures, fallback_order, analyzers,
                   failure_tracker, clock, streak, win, rank, demux,
                   cfgVars, coordVars>>

\* the caller takes the result; the next call of this caller may start
Return(c) ==
    /\ call[c].pc = "done"
    /\ call' = [call EXCEPT ![c] = [IdleCall EXCEPT !.calls = call[c].calls]]
    /\ UNCHANGED <<max_consecutive_failures, fallback_order, analyzers,
                   failure_tracker, clock, streak, win, rank, demux,
                   cfgVars, coordVars>>

\* time passes
Tick ==
    /\ clock < MaxTime
    /\ clock' = clock + 1
    /\ UNCHANGED <<max_consecutive_failures, fallback_order, analyzers,
                   failure_tracker, call, streak, win, rank, demux,
                   cfgVars, coordVars>>

\* a member of the AIProvider enum for which _initialize_analyzers builds no
\* analyzer
ZHIPU == "zhipu"

\* AIProvider(name) raises ValueError for a name that is no provider
IsProvider(name) == name \in Providers \cup {ZHIPU}

\* sota_priority
sota_priority == <<"claude", "gemini", "openai", "deepseek">>

\* the mutant: the pinned model is not looked at
_parse_fallback_order_unpinned(cfg) ==
    LET available_providers == FilterSeq(sota_priority, cfg.API_KEYS)
        user_order          == FilterSeq(cfg.AI_FALLBACK_ORDER,
                                         Range(available_providers))
    IN  IF cfg.AI_FALLBACK_ORDER # <<>> /\ user_order # <<>>
          THEN user_order
        ELSE IF available_providers # <<>> THEN available_providers
        ELSE <<"deepseek">>

\* _parse_fallback_order()
_parse_fallback_order(cfg) ==
    LET preferred_model     == cfg.PREFERRED_AI_MODEL
        available_providers == FilterSeq(sota_priority, cfg.API_KEYS)
        user_order          == FilterSeq(cfg.AI_FALLBACK_ORDER,
                                         Range(available_providers))
    IN  IF preferred_model # "" /\ IsProvider(preferred_model)
                                /\ preferred_model \in cfg.API_KEYS
          THEN <<preferred_model>>
        ELSE IF cfg.AI_FALLBACK_ORDER # <<>> /\ user_order # <<>>
          THEN user_order
        ELSE IF available_providers # <<>> THEN available_providers
        ELSE <<"deepseek">>

\* _initialize_analyzers(): one analyzer per configured key
_initialize_analyzers(cfg) == cfg.API_KEYS \cap Providers

\* the AI_FALLBACK_ORDER settings of the runs of Spec, each with the keys of
\* the providers it names
FallbackOrders ==
    {<<"gemini", "deepseek">>, <<"deepseek", "openai">>, <<"gemini">>,
     <<"deepseek">>}

\* the configurations of the runs of Spec: every order with keys of more
\* than 10 characters and the default API_RETRY_TIMES, one order with
\* API_RETRY_TIMES = 0, and one with a key of at most 10 characters
SelectorConfigs ==
    {[PREFERRED_AI_MODEL |-> "", API_KEYS |-> Range(order), SHORT_KEYS |-> {},
      AI_FALLBACK_ORDER |-> order, API_RETRY_TIMES |-> 3] : order \in FallbackOrders}
    \cup
    {[PREFERRED_AI_MODEL |-> "", API_KEYS |-> {"deepseek"}, SHORT_KEYS |-> {},
      AI_FALLBACK_ORDER |-> <<"deepseek">>, API_RETRY_TIMES |-> 0],
     [PREFERRED_AI_MODEL |-> "", API_KEYS |-> {"deepseek", "openai"},
      SHORT_KEYS |-> {"deepseek"},
      AI_FALLBACK_ORDER |-> <<"deepseek", "openai">>, API_RETRY_TIMES |-> 3]}

Init ==
    /\ max_consecutive_failures \in 1..MaxK
    /\ config \in SelectorConfigs
    /\ raises = AllTransient
    /\ fallback_order = _parse_fallback_order(config)
    /\ analyzers = _initialize_analyzers(config)
    /\ failure_tracker = NewTracker
    /\ clock = 0
    /\ call = [c \in Callers |-> IdleCall]
    /\ streak = [p \in Providers |-> 0]
    /\ CoordIdle
    /\ win = Idle
    /\ rank = Idle
    /\ demux = Idle

\* one step of the call of caller c
CallStep(c) ==
    \/ StartCall(c)
    \/ ReadCandidate(c)
    \/ SweepCopy(c)
    \/ SweepLoad(c)
    \/ SweepStore(c)
    \/ SweepTest(c)
    \/ SweepRemove(c)
    \/ Invoke(c)
    \/ BackendReturns(c)
    \/ RsTest(c)
    \/ RsRemove(c)
    \/ BackendRaises(c)
    \/ RfReadTime(c)
    \/ RfCheckReset(c)
    \/ RfResetCount(c)
    \/ RfLoadCount(c)
    \/ RfStoreCount(c)
    \/ RfStoreTime(c)
    \/ RfCheckMax(c)
    \/ RfDisable(c)
    \/ Exhaust(c)
    \/ Return(c)

Next ==
    \/ \E c \in Callers : CallStep(c)
    \/ Tick

Spec == Init /\ [][Next]_vars

(***************************************************************************)
(* BatchCoordinator._run_stage1_ranking: window construction               *)
(* Item k of all_paper_dicts is the number k, k = 1..N.                    *)
(***************************************************************************)
MaxN == 23         \* item counts 0..MaxN
MaxW == 10         \* window sizes 1..MaxW, configured steps 0..MaxW

Min2(a, b) == IF a <= b THEN a ELSE b

\* a slice one item short
SliceShort(N, i, window_size) ==
    [k \in 1..Max2(0, Min2(i + window_size - 1, N) - i) |-> i + k]

\* all_paper_dicts[i : i + window_size], i counted from 0
Slice(N, i, window_size) ==
    [k \in 1..Max2(0, Min2(i + window_size, N) - i) |-> i + k]

\* the test with floor division
IsRuntFloor(len, window_size) == len < window_size \div 2

\* len(chunk) < window_size / 2, a true division
IsRunt(len, window_size) == 2 * len < window_size

\* if step_size <= 0: step_size = 1
EffectiveStep(step_size) == IF step_size <= 0 THEN 1 ELSE step_size

\* the configuration is read and the step defaulted
Configure(w) == [w EXCEPT !.pc = "loop", !.step_size = EffectiveStep(@)]

\* an iteration that leaves the loop on a short trailing chunk without
\* appending it to the last window
IterateDropTail(w) ==
    LET chunk == Slice(w.N, w.i, w.window_size)
        n     == Len(w.paper_chunks)
    IN  IF w.i >= w.N THEN [w EXCEPT !.pc = "done"]
        ELSE IF chunk = <<>> THEN [w EXCEPT !.i = @ + w.step_size]
        ELSE IF n > 0 /\ IsRunt(Len(chunk), w.window_size)
          THEN [w EXCEPT !.pc = "done"]
          ELSE [w EXCEPT !.i = @ + w.step_size,
                         !.paper_chunks = Append(@, chunk)]

\* one iteration of: for i in range(0, len(all_paper_dicts), step_size);
\* leaving the range ends the loop
Iterate(w) ==
    LET chunk == Slice(w.N, w.i, w.window_size)
        n     == Len(w.paper_chunks)
    IN  IF w.i >= w.N THEN [w EXCEPT !.pc = "done"]
        ELSE IF chunk = <<>> THEN [w EXCEPT !.i = @ + w.step_size]
        ELSE IF n > 0 /\ IsRunt(Len(chunk), w.window_size)
          THEN [w EXCEPT !.pc = "done", !.paper_chunks[n] = @ \o chunk]
          ELSE [w EXCEPT !.i = @ + w.step_size,
                         !.paper_chunks = Append(@, chunk)]

NewWin(N, W, S) ==
    [pc |-> "config", N |-> N, window_size |-> W, step_size |-> S,
     i |-> 0, paper_chunks |-> <<>>]

RECURSIVE RunLoop(_)
RunLoop(w) == IF w.pc = "done" THEN w ELSE RunLoop(Iterate(w))

\* the list paper_chunks built for N items
PaperChunks(N, W, S) == RunLoop(Configure(NewWin(N, W, S))).paper_chunks

WinInit ==
    /\ \E N \in 0..MaxN, W \in 1..MaxW, S \in 0..MaxW : win = NewWin(N, W, S)
    /\ max_consecutive_failures = 1
    /\ fallback_order = <<>>
    /\ analyzers = {}
    /\ failure_tracker = NewTracker
    /\ clock = 0
    /\ call = [c \in Callers |-> IdleCall]
    /\ streak = [p \in Providers |-> 0]
    /\ config = NoConfig
    /\ raises = AllTransient
    /\ CoordIdle
    /\ rank = Idle
    /\ demux = Idle

WinConfigure ==
    /\ win.pc = "config"
    /\ win' = Configure(win)
    /\ UNCHANGED <<selVars, rank, demux, coordVars>>

\* a window is appended, or the trailing chunk is merged and the loop left
WinIterate ==
    /\ win.pc = "loop"
    /\ win.i < win.N
    /\ win' = Iterate(win)
    /\ UNCHANGED <<selVars, rank, demux, coordVars>>

\* the range is exhausted
WinEnd ==
    /\ win.pc = "loop"
    /\ win.i >= win.N
    /\ win' = Iterate(win)
    /\ UNCHANGED <<selVars, rank, demux, coordVars>>

WinNext == WinConfigure \/ WinIterate \/ WinEnd

SpecWindows == WinInit /\ [][WinNext]_vars

(***************************************************************************)
(* BatchCoordinator._run_stage1_ranking: ranking and aggregation           *)
(* The windows are ranked by futures that complete in any order.  A        *)
(* ranking result is the list rank_papers_in_batch returns: entries with a *)
(* paper_id (0 stands for a missing or empty id) and a score (a number, or *)
(* BadScore for a value that is not an int or float).  The backend names      *)
(* papers of the window it was given.                                      *)
(***************************************************************************)
RankMaxN == 2      \* item counts 1..RankMaxN
MaxEntries == 1    \* entries in one ranking result

RankW == 2

Scores == {1, 2}

NoId == 0

\* stands for a score that is not a number, such as "high" or null
BadScore == -1

\* the entries of a ranking result: a paper of the window with a score or
\* with a value that is no number, or an entry without a paper_id
Entries(chunk) ==
    [paper_id : Range(chunk), score : Scores \cup {BadScore}]
        \cup {[paper_id |-> NoId, score |-> 1]}

SeqsUpTo(S, n) == UNION {[1..k -> S] : k \in 0..n}

\* what future.result() can give for a window: a list, or an exception
Results(chunk) ==
    {[raised |-> FALSE, list |-> l] : l \in SeqsUpTo(Entries(chunk), MaxEntries)}
        \cup {[raised |-> TRUE, list |-> <<>>]}

\* isinstance(score, (int, float))
IsNumber(score) == score # BadScore

\* the last score appended
LastOf(scores) == scores[Len(scores)]

RECURSIVE MaxOf(_)
\* max(scores) of a non-empty list
MaxOf(scores) ==
    IF Len(scores) = 1 THEN scores[1]
    ELSE Max2(scores[1], MaxOf(Tail(scores)))

RECURSIVE AppendScores(_, _)
\* for result in ranking_results: stage1_scores[paper_id].append(float(score))
AppendScores(stage1_scores, ranking_results) ==
    IF ranking_results = <<>> THEN stage1_scores
    ELSE LET result == Head(ranking_results)
             next == IF result.paper_id # NoId /\ IsNumber(result.score)
                       THEN [stage1_scores EXCEPT ![result.paper_id] =
                                                      Append(@, result.score)]
                       ELSE stage1_scores
         IN  AppendScores(next, Tail(ranking_results))

RECURSIVE InsertDescUnstable(_, _)
\* the mutant: p goes before the elements with an equal score
InsertDescUnstable(sorted, p) ==
    IF sorted = <<>> THEN <<p>>
    ELSE IF Head(sorted).stage1_score > p.stage1_score
           THEN <<Head(sorted)>> \o InsertDescUnstable(Tail(sorted), p)
           ELSE <<p>> \o sorted

RECURSIVE InsertDesc(_, _)
\* p goes behind every element whose score is not lower
InsertDesc(sorted, p) ==
    IF sorted = <<>> THEN <<p>>
    ELSE IF Head(sorted).stage1_score >= p.stage1_score
           THEN <<Head(sorted)>> \o InsertDesc(Tail(sorted), p)
           ELSE <<p>> \o sorted

RECURSIVE SortDesc(_)
\* list.sort(key=stage1_score, reverse=True): stable
SortDesc(papers) ==
    IF papers = <<>> THEN <<>>
    ELSE InsertDesc(SortDesc(SubSeq(papers, 1, Len(papers) - 1)), papers[Len(papers)])

\* final_scores, the scores attached to the papers, and the sort
RankedPapers(N, stage1_scores) ==
    SortDesc([k \in 1..N |->
        [paper_id |-> k,
         stage1_score |-> IF stage1_scores[k] # <<>> THEN MaxOf(stage1_scores[k])
                          ELSE 0]])

RankInit ==
    /\ \E N \in 1..RankMaxN, S \in 1..RankW :
         LET chunks == PaperChunks(N, RankW, S)
         IN  rank = [pc |-> "collect", N |-> N, paper_chunks |-> chunks,
                     pending |-> 1..Len(chunks),
                     completed |-> <<>>,
                     results |-> [k \in 1..Len(chunks) |-> [raised |-> FALSE, list |-> <<>>]],
                     stage1_scores |-> [k \in 1..N |-> <<>>],
                     all_paper_dicts |-> <<>>]
    /\ max_consecutive_failures = 1
    /\ fallback_order = <<>>
    /\ analyzers = {}
    /\ failure_tracker = NewTracker
    /\ clock = 0
    /\ call = [c \in Callers |-> IdleCall]
    /\ streak = [p \in Providers |-> 0]
    /\ config = NoConfig
    /\ raises = AllTransient
    /\ CoordIdle
    /\ win = Idle
    /\ demux = Idle

\* as_completed yields the future of window k; its result is a list
RankCollect(k) ==
    /\ rank.pc = "collect"
    /\ k \in rank.pending
    /\ \E r \in {x \in Results(rank.paper_chunks[k]) : ~x.raised} :
         rank' = [rank EXCEPT !.pending = @ \ {k},
                     !.completed = Append(@, k),
                     !.results[k] = r,
                     !.stage1_scores = AppendScores(@, r.list)]
    /\ UNCHANGED <<selVars, win, demux, coordVars>>

\* as_completed yields the future of window k; future.result() raises
RankCollectError(k) ==
    /\ rank.pc = "collect"
    /\ k \in rank.pending
    /\ rank' = [rank EXCEPT !.pending = @ \ {k},
                   !.completed = Append(@, k),
                   !.results[k] = [raised |-> TRUE, list |-> <<>>]]
    /\ UNCHANGED <<selVars, win, demux, coordVars>>

\* every future is collected: final_scores, stage1_score, sort, return
RankFinish ==
    /\ rank.pc = "collect"
    /\ rank.pending = {}
    /\ rank' = [rank EXCEPT !.pc = "done",
                   !.all_paper_dicts = RankedPapers(rank.N, rank.stage1_scores)]
    /\ UNCHANGED <<selVars, win, demux, coordVars>>

RankNext ==
    \/ \E k \in 1..RankMaxN : RankCollect(k)
    \/ \E k \in 1..RankMaxN : RankCollectError(k)
    \/ RankFinish

SpecRank == RankInit /\ [][RankNext]_vars

(***************************************************************************)
(* BatchCoordinator._parse_batch_analysis and the end of                   *)
(* _run_stage2_deep_analysis                                               *)
(* A text is a sequence of tokens [t, k]:                                  *)
(*   P      the literal "Paper ID" ... ":" of the split pattern            *)
(*   id k   the paper_id of paper k                                        *)
(*   hdr k  the title/abstract header the backend repeats for paper k      *)
(*   sep    a line "---"                                                   *)
(*   body k the analysis written for paper k                               *)
(*   ws     white space                                                    *)
(*   pre    text the backend writes before the first section               *)
(* Paper ids are atomic: no paper_id is a prefix of another.               *)
(***************************************************************************)
MaxBatch == 5      \* papers in one deep-analysis batch: 0..MaxBatch

Tok(t, k) == [t |-> t, k |-> k]

P == Tok("P", 0)

SEP == Tok("sep", 0)

WS == Tok("ws", 0)

PRE == Tok("pre", 0)

\* the ways the backend can write the section of paper k
Section(variant, k) ==
    CASE variant = "full"    -> <<P, WS, Tok("id", k), WS, Tok("hdr", k), SEP,
                                  WS, Tok("body", k), WS>>
      [] variant = "nosep"   -> <<P, Tok("id", k), Tok("body", k)>>
      [] variant = "twice"   -> <<P, Tok("id", k), SEP, Tok("hdr", k),
                                  P, Tok("id", k), Tok("body", k)>>
      [] variant = "nodelim" -> <<Tok("hdr", k), SEP, Tok("body", k)>>
      [] variant = "idonly"  -> <<Tok("id", k), Tok("body", k)>>
      [] variant = "absent"  -> <<>>

Variants == {"full", "nosep", "twice", "nodelim", "idonly", "absent"}

RECURSIVE Concat(_, _, _)
Concat(variants, k, n) ==
    IF k > n THEN <<>> ELSE Section(variants[k], k) \o Concat(variants, k + 1, n)

\* the texts analyze_papers_batch can return for papers 1..n
BatchText(preamble, variants, n) ==
    (IF preamble THEN <<PRE>> ELSE <<>>) \o Concat(variants, 1, n)

RECURSIVE SkipWs(_, _)
\* \s* : the first position from q on that holds no white space
SkipWs(text, q) ==
    IF q <= Len(text) /\ text[q] = WS THEN SkipWs(text, q + 1) ELSE q

\* a pattern that allows no white space before the id
MatchEndNoSpace(text, p, paper_ids) ==
    IF text[p] = P /\ p + 1 <= Len(text) /\ text[p + 1].t = "id"
                   /\ text[p + 1].k \in Range(paper_ids)
      THEN p + 1 ELSE 0

\* Paper ID\s*:\s*(id1|id2|...) matched at position p: the position of the
\* captured id, or 0
MatchEnd(text, p, paper_ids) ==
    LET q == SkipWs(text, p + 1)
    IN  IF text[p] = P /\ q <= Len(text) /\ text[q].t = "id"
                       /\ text[q].k \in Range(paper_ids)
          THEN q ELSE 0

RECURSIVE Split(_, _, _, _)
\* re.split(split_pattern, batch_text) with its capture group: the text
\* before the first match, then for each match the captured id and the text
\* up to the next match
Split(text, p, paper_ids, current) ==
    IF p > Len(text) THEN <<current>>
    ELSE LET q == MatchEnd(text, p, paper_ids)
         IN  IF q # 0
               THEN <<current, <<text[q]>>>> \o Split(text, q + 1, paper_ids, <<>>)
               ELSE Split(text, p + 1, paper_ids, Append(current, text[p]))

RECURSIVE FirstSep(_, _)
FirstSep(content, j) ==
    IF j > Len(content) THEN 0
    ELSE IF content[j] = SEP THEN j ELSE FirstSep(content, j + 1)

\* re.split(r'---\s*\n', content_with_header, maxsplit=1)[-1]
AfterHeader(content) ==
    LET j == FirstSep(content, 1)
    IN  IF j = 0 THEN content ELSE SubSeq(content, j + 1, Len(content))

RECURSIVE Strip(_)
\* str.strip()
Strip(content) ==
    IF content = <<>> THEN content
    ELSE IF Head(content) = WS THEN Strip(Tail(content))
    ELSE IF content[Len(content)] = WS
           THEN Strip(SubSeq(content, 1, Len(content) - 1))
    ELSE content

RECURSIVE Collect(_, _, _)
\* for i in range(1, len(parts), 2): results[parts[i]] = ...
Collect(parts, i, results) ==
    IF i + 1 > Len(parts) THEN results
    ELSE LET paper_id == parts[i][1].k
             raw      == Strip(AfterHeader(parts[i + 1]))
         IN  Collect(parts, i + 2,
                 [k \in (DOMAIN results) \cup {paper_id} |->
                     IF k = paper_id THEN raw ELSE results[k]])

NoResults == [k \in {} |-> <<>>]

\* _parse_batch_analysis(batch_text, papers_in_batch): paper_id -> raw text
_parse_batch_analysis(batch_text, paper_ids) ==
    IF batch_text = <<>> \/ paper_ids = <<>> THEN NoResults
    ELSE LET parts == Split(batch_text, 1, paper_ids, <<>>)
         IN  IF Len(parts) < 3 THEN NoResults
             ELSE Collect(parts, 2, NoResults)

RECURSIVE Attach(_, _)
\* the papers of the batch that have a parsed result, with it attached
Attach(papers, parsed_results) ==
    IF papers = <<>> THEN <<>>
    ELSE IF Head(papers) \in DOMAIN parsed_results
           THEN <<[paper_id |-> Head(papers),
                   analysis |-> parsed_results[Head(papers)]]>>
                    \o Attach(Tail(papers), parsed_results)
           ELSE Attach(Tail(papers), parsed_results)

DemuxInit ==
    /\ \E n \in 0..MaxBatch :
          demux = [pc |-> "call", papers |-> [k \in 1..n |-> k],
                   batch_text |-> <<>>, parsed_results |-> NoResults,
                   returned |-> <<>>]
    /\ max_consecutive_failures = 1
    /\ fallback_order = <<>>
    /\ analyzers = {}
    /\ failure_tracker = NewTracker
    /\ clock = 0
    /\ call = [c \in Callers |-> IdleCall]
    /\ streak = [p \in Providers |-> 0]
    /\ config = NoConfig
    /\ raises = AllTransient
    /\ CoordIdle
    /\ win = Idle
    /\ rank = Idle

\* analyze_papers_batch returns a text: it is parsed and the analysed papers
\* are returned
Stage2Analyze ==
    /\ demux.pc = "call"
    /\ LET n == Len(demux.papers)
       IN  \E preamble \in BOOLEAN, variants \in [1..n -> Variants] :
             LET text   == BatchText(preamble, variants, n)
                 parsed == _parse_batch_analysis(text, demux.papers)
             IN  demux' = [demux EXCEPT !.pc = "returned",
                              !.batch_text = text,
                              !.parsed_results = parsed,
                              !.returned = Attach(demux.papers, parsed)]
    /\ UNCHANGED <<selVars, win, rank, coordVars>>

\* analyze_papers_batch raises: the except clause returns []
Stage2Fails ==
    /\ demux.pc = "call"
    /\ demux' = [demux EXCEPT !.pc = "failed", !.returned = <<>>]
    /\ UNCHANGED <<selVars, win, rank, coordVars>>

DemuxNext == Stage2Analyze \/ Stage2Fails

SpecDemux == DemuxInit /\ [][DemuxNext]_vars

(***************************************************************************)
(* BatchCoordinator._run_stage2_deep_analysis: promotion, parallel         *)
(* full-text extraction and the returned list                              *)
(* papers_with_scores is the list _run_stage1_ranking returns: papers 1..N *)
(* with their stage1_score, sorted by descending score.                    *)
(***************************************************************************)
PromoMaxN == 3     \* papers 1..PromoMaxN

PromoScores == {1, 2}

Thresholds == {1, 2, 3}

\* the orders in which a set can be iterated
Perms(S) ==
    {s \in [1..Cardinality(S) -> S] : \A i, j \in 1..Cardinality(S) : s[i] = s[j] => i = j}

\* {p['paper_id'] for p in papers_with_scores if stage1_score >= promotion_threshold}
PromotedPaperIds(papers_with_scores, promotion_threshold) ==
    {papers_with_scores[i].paper_id : i \in
        {j \in 1..Len(papers_with_scores) :
            papers_with_scores[j].stage1_score >= promotion_threshold}}

\* all_papers_map[pid]
PaperOf(papers_with_scores, pid) ==
    papers_with_scores[CHOOSE i \in 1..Len(papers_with_scores) :
                           papers_with_scores[i].paper_id = pid]

\* promoted_papers_tuples[:max_to_analyze] taken as far as the list goes
Truncate(s, n) == SubSeq(s, 1, Min2(n, Len(s)))

\* [all_papers_map[pid] for pid in promoted_paper_ids], sorted by descending
\* score (a stable sort), cut to max_to_analyze; iteration is the order in
\* which the set promoted_paper_ids is iterated
TopPapers(papers_with_scores, iteration, max_to_analyze) ==
    Truncate(SortDesc([i \in 1..Len(iteration) |->
                          PaperOf(papers_with_scores, iteration[i])]),
             max_to_analyze)

\* the papers of papers_for_deep_analysis with a parsed result, in the order
\* of that list
Analyzed(papers_for_deep_analysis, parsed) ==
    FilterSeq(papers_for_deep_analysis, parsed)

PromoInit ==
    /\ \E N \in 1..PromoMaxN, threshold \in Thresholds, max \in 1..PromoMaxN :
         \E score \in [1..N -> PromoScores] :
            promo = [pc |-> "promote",
                     papers_with_scores |->
                         SortDesc([k \in 1..N |->
                             [paper_id |-> k, stage1_score |-> score[k]]]),
                     promotion_threshold |-> threshold,
                     max_to_analyze |-> max,
                     top_papers |-> <<>>,
                     pending |-> {},
                     papers_for_deep_analysis |-> <<>>,
                     returned |-> <<>>]
    /\ max_consecutive_failures = 1
    /\ fallback_order = <<>>
    /\ analyzers = {}
    /\ failure_tracker = NewTracker
    /\ clock = 0
    /\ call = [c \in Callers |-> IdleCall]
    /\ streak = [p \in Providers |-> 0]
    /\ config = NoConfig
    /\ raises = AllTransient
    /\ Stage1Idle
    /\ pool = Idle
    /\ retry = Idle

\* the promoted papers are selected, sorted and cut; with none promoted the
\* method returns []; otherwise every full-text extraction is submitted
Promote ==
    /\ promo.pc = "promote"
    /\ \E iteration \in Perms(PromotedPaperIds(promo.papers_with_scores,
                                               promo.promotion_threshold)) :
         LET top == TopPapers(promo.papers_with_scores, iteration,
                              promo.max_to_analyze)
         IN  promo' = [promo EXCEPT
                 !.pc = IF top = <<>> THEN "returned" ELSE "extract",
                 !.top_papers = top,
                 !.pending = {top[i].paper_id : i \in 1..Len(top)}]
    /\ UNCHANGED <<selVars, win, rank, demux, pool, retry>>

\* as_completed yields the future of paper pid: with or without a full text
\* the paper is appended to papers_for_deep_analysis
ExtractCompletes(pid) ==
    /\ promo.pc = "extract"
    /\ pid \in promo.pending
    /\ promo' = [promo EXCEPT
           !.pending = @ \ {pid},
           !.papers_for_deep_analysis = Append(@, pid),
           !.pc = IF promo.pending = {pid} THEN "analyze" ELSE "extract"]
    /\ UNCHANGED <<selVars, win, rank, demux, pool, retry>>

\* analyze_papers_batch returns and the text is parsed: the papers with a
\* parsed result are returned
DeepAnalyze ==
    /\ promo.pc = "analyze"
    /\ \E parsed \in SUBSET Range(promo.papers_for_deep_analysis) :
         promo' = [promo EXCEPT !.pc = "returned",
                      !.returned = Analyzed(promo.papers_for_deep_analysis, parsed)]
    /\ UNCHANGED <<selVars, win, rank, demux, pool, retry>>

\* analyze_papers_batch or the parsing raises: [] is returned
DeepAnalyzeFails ==
    /\ promo.pc = "analyze"
    /\ promo' = [promo EXCEPT !.pc = "failed", !.returned = <<>>]
    /\ UNCHANGED <<selVars, win, rank, demux, pool, retry>>

PromoNext ==
    \/ Promote
    \/ \E pid \in 1..PromoMaxN : ExtractCompletes(pid)
    \/ DeepAnalyze
    \/ DeepAnalyzeFails

SpecPromote == PromoInit /\ [][PromoNext]_vars

(***************************************************************************)
(* ParallelPaperAnalyzer                                                   *)
(* Two ThreadPoolExecutors: the ai_executor of one analyze_papers_parallel *)
(* call (max_workers threads) runs _process_paper_lifecycle for every      *)
(* paper of the call, the io_executor of the object (max_io_workers        *)
(* threads) runs _download_pdf_task and _delete_pdf_task.  An executor     *)
(* hands its queued tasks to free threads in submission order.             *)
(* analyze_papers_batch calls analyze_papers_parallel once per sub-batch   *)
(* of batch_size papers; a call of analyze_papers_parallel on the whole    *)
(* list is the batch of one sub-batch.  The main thread submits the papers *)
(* of a call one by one while the threads of the ai_executor already run   *)
(* the lifecycles submitted so far, and a lifecycle updates a counter by a *)
(* load and a store outside self._lock.  events[i] is the history of paper *)
(* i's lifecycle, loaded[i] the counter value its thread has read.  The    *)
(* module names Any in its annotations without importing it; the class is  *)
(* taken as it is once that name is bound.                                 *)
(***************************************************************************)
PoolMaxPapers == 2     \* papers 1..PoolMaxPapers
PoolMaxWorkers == 2    \* max_workers in 0..PoolMaxWorkers
MaxFactor == 1         \* max_io_workers_factor in 1..MaxFactor

\* what os.cpu_count() returns: None (0 here) or the number of CPUs
CpuCounts == {0, 2}

\* an I/O pool without threads
max_io_workers_none(max_workers, max_io_workers_factor, cpu_count) == 0

\* self.max_io_workers: max_workers * max_io_workers_factor, and with
\* max_workers <= 0 (os.cpu_count() or 4) * max_io_workers_factor
max_io_workers(max_workers, max_io_workers_factor, cpu_count) ==
    IF max_workers <= 0
      THEN (IF cpu_count = 0 THEN 4 ELSE cpu_count) * max_io_workers_factor
      ELSE max_workers * max_io_workers_factor

Task(kind, i) == [task |-> kind, paper |-> i]

\* a pool thread picks up a queued task although none is idle
HasIdleThreadOff(running, size) == Cardinality(running) <= size

\* ThreadPoolExecutor: a queued task starts when fewer than max_workers
\* threads are busy
HasIdleThread(running, size) == Cardinality(running) < size

\* the backend call starts without the download
FetchNotAwaited(life) == TRUE

\* pdf_path = download_future.result(): the worker goes on once the download
\* task has ended, or at once when papers_dir is not set
FetchAwaited(life) == life = "ready"

\* the threads of the ai_executor run from the first submit of a call until
\* the with block is left
WorkersRun(pc) == pc \in {"submit", "collect"}

\* the attribute a lifecycle increments
CounterOf(analysis_result) ==
    IF analysis_result THEN "successful_analyses" ELSE "failed_analyses"

\* a lifecycle that waits for its delete task
ReturnAwaitsCleanup(cleanup) == cleanup \in {"none", "done"}

\* self.io_executor.submit(self._delete_pdf_task, pdf_path) returns a future
\* that is dropped: the lifecycle returns whatever the state of that task
ReturnReady(cleanup) == cleanup \in {"none", "queued", "running", "done"}

\* the state after ParallelPaperAnalyzer(...): papers 1..n are what the
\* client is going to pass
PoolInit ==
    /\ \E n \in 0..PoolMaxPapers, w \in 0..PoolMaxWorkers,
          f \in 1..MaxFactor, dir \in BOOLEAN, cpu \in CpuCounts :
         \E b \in 1..Max2(n, 1) :
           pool = [pc |-> "constructed", n |-> n, batch_size |-> b,
                   lo |-> 0, hi |-> 0, max_workers |-> w,
                   max_io_workers_factor |-> f,
                   max_io_workers |-> max_io_workers(w, f, cpu),
                   papers_dir |-> dir, shutdown |-> "no",
                   ai_queue |-> <<>>, ai_running |-> {},
                   io_queue |-> <<>>, io_running |-> {},
                   life |-> [i \in 1..n |-> "pending"],
                   pdf_path |-> [i \in 1..n |-> FALSE],
                   analysis_result |-> [i \in 1..n |-> FALSE],
                   cleanup |-> [i \in 1..n |-> "none"],
                   events |-> [i \in 1..n |-> <<>>],
                   loaded |-> [i \in 1..n |-> 0],
                   successful_analyses |-> 0, failed_analyses |-> 0,
                   results |-> <<>>, all_results |-> <<>>]
    /\ max_consecutive_failures = 1
    /\ fallback_order = <<>>
    /\ analyzers = {}
    /\ failure_tracker = NewTracker
    /\ clock = 0
    /\ call = [c \in Callers |-> IdleCall]
    /\ streak = [p \in Providers |-> 0]
    /\ config = NoConfig
    /\ raises = AllTransient
    /\ Stage1Idle
    /\ promo = Idle
    /\ retry = Idle

\* analyze_papers_parallel(papers[lo:hi]) up to the with statement: the
\* counters and results are reset; ThreadPoolExecutor(max_workers) raises
\* ValueError for max_workers <= 0, else the ai_executor exists and no paper
\* is submitted yet
analyze_papers_parallel(p, lo, hi) ==
    LET reset == [p EXCEPT !.successful_analyses = 0, !.failed_analyses = 0,
                           !.results = <<>>, !.lo = lo, !.hi = hi]
    IN  IF p.max_workers <= 0 THEN [reset EXCEPT !.pc = "raised"]
        ELSE [reset EXCEPT !.pc = "submit"]

\* analyze_papers_batch(papers): [] for no papers, else the call for the
\* first sub-batch
analyze_papers_batch ==
    /\ pool.pc = "constructed"
    /\ pool' = IF pool.n = 0 THEN [pool EXCEPT !.pc = "returned"]
               ELSE analyze_papers_parallel(pool, 0, Min2(pool.batch_size, pool.n))
    /\ UNCHANGED <<selVars, win, rank, demux, promo, retry>>

\* the comprehension of future_to_paper: the main thread submits the next
\* paper of the call to the ai_executor; after the last one it goes on to
\* as_completed
SubmitLifecycle ==
    /\ pool.pc = "submit"
    /\ LET i == CHOOSE k \in (pool.lo + 1)..pool.hi :
                   /\ pool.life[k] = "pending"
                   /\ \A j \in (pool.lo + 1)..(k - 1) : pool.life[j] # "pending"
       IN  pool' = [pool EXCEPT
               !.ai_queue = Append(@, i),
               !.life[i] = "submitted",
               !.pc = IF i = pool.hi THEN "collect" ELSE "submit"]
    /\ UNCHANGED <<selVars, win, rank, demux, promo, retry>>

\* an idle ai_executor thread takes the next lifecycle and enters
\* _process_paper_lifecycle
StartLifecycle ==
    /\ WorkersRun(pool.pc)
    /\ pool.ai_queue # <<>>
    /\ HasIdleThread(pool.ai_running, pool.max_workers)
    /\ LET i == Head(pool.ai_queue)
       IN  pool' = [pool EXCEPT
               !.ai_queue = Tail(@),
               !.ai_running = @ \cup {i},
               !.life[i] = "started"]
    /\ UNCHANGED <<selVars, win, rank, demux, promo, retry>>

\* step 1 of the lifecycle: with papers_dir the download is submitted to the
\* io_executor and the worker waits in download_future.result(); without
\* papers_dir the download is skipped; on an io_executor that has been shut
\* down submit raises RuntimeError and the lifecycle goes to its except
\* branch, where it counts a failure
SubmitDownload(i) ==
    /\ WorkersRun(pool.pc)
    /\ i \in 1..pool.n
    /\ pool.life[i] = "started"
    /\ pool' =
         IF pool.papers_dir /\ pool.shutdown # "no"
           THEN [pool EXCEPT
                   !.life[i] = "load",
                   !.events[i] = Append(@, "submit_refused")]
           ELSE [pool EXCEPT
                   !.life[i] = IF pool.papers_dir THEN "waiting" ELSE "ready",
                   !.io_queue = IF pool.papers_dir
                                  THEN Append(@, Task("download", i)) ELSE @,
                   !.events[i] = IF pool.papers_dir THEN @
                                 ELSE Append(@, "fetch_skipped")]
    /\ UNCHANGED <<selVars, win, rank, demux, promo, retry>>

\* an idle io_executor thread takes the next queued task, during a call of
\* analyze_papers_parallel or after it
IoStart ==
    /\ pool.pc \in {"submit", "collect", "rest", "returned"}
    /\ pool.io_queue # <<>>
    /\ HasIdleThread(pool.io_running, pool.max_io_workers)
    /\ LET t == Head(pool.io_queue)
       IN  pool' = [pool EXCEPT
               !.io_queue = Tail(@),
               !.io_running = @ \cup {t},
               !.cleanup[t.paper] = IF t.task = "delete" THEN "running" ELSE @]
    /\ UNCHANGED <<selVars, win, rank, demux, promo, retry>>

\* _download_pdf_task ends with a path, or with None after an exception
DownloadEnds(i) ==
    /\ WorkersRun(pool.pc)
    /\ i \in 1..pool.n
    /\ Task("download", i) \in pool.io_running
    /\ \E path \in BOOLEAN :
         pool' = [pool EXCEPT
             !.io_running = @ \ {Task("download", i)},
             !.pdf_path[i] = path,
             !.life[i] = IF @ = "waiting" THEN "ready" ELSE @,
             !.events[i] = Append(@, "fetch_done")]
    /\ UNCHANGED <<selVars, win, rank, demux, promo, retry>>

\* _perform_core_ai_analysis is entered on the ai_executor thread
CallStarts(i) ==
    /\ WorkersRun(pool.pc)
    /\ i \in 1..pool.n
    /\ i \in pool.ai_running
    /\ pool.life[i] \in {"waiting", "ready"}
    /\ FetchAwaited(pool.life[i])
    /\ pool' = [pool EXCEPT !.life[i] = "analyzing",
                            !.events[i] = Append(@, "call_start")]
    /\ UNCHANGED <<selVars, win, rank, demux, promo, retry>>

\* _perform_core_ai_analysis returns an analysis or None
CallEnds(i) ==
    /\ WorkersRun(pool.pc)
    /\ i \in 1..pool.n
    /\ pool.life[i] = "analyzing"
    /\ \E ok \in BOOLEAN :
         pool' = [pool EXCEPT !.life[i] = "load",
                              !.analysis_result[i] = ok,
                              !.events[i] = Append(@, "call_end")]
    /\ UNCHANGED <<selVars, win, rank, demux, promo, retry>>

\* self.<counter> += 1, outside self._lock: the attribute is read
CounterLoad(i) ==
    /\ WorkersRun(pool.pc)
    /\ i \in 1..pool.n
    /\ pool.life[i] = "load"
    /\ pool' = [pool EXCEPT
           !.life[i] = "store",
           !.loaded[i] = pool[CounterOf(pool.analysis_result[i])]]
    /\ UNCHANGED <<selVars, win, rank, demux, promo, retry>>

\* self.<counter> += 1: the sum is written back, and the lifecycle goes on
\* to its return statement
CounterStore(i) ==
    /\ WorkersRun(pool.pc)
    /\ i \in 1..pool.n
    /\ pool.life[i] = "store"
    /\ pool' = [pool EXCEPT
           ![CounterOf(pool.analysis_result[i])] = pool.loaded[i] + 1,
           !.loaded[i] = 0,
           !.life[i] = "analyzed"]
    /\ UNCHANGED <<selVars, win, rank, demux, promo, retry>>

\* the finally block: the delete task is submitted when a path was
\* obtained; on an io_executor that has been shut down submit raises
\* RuntimeError, and the lifecycle ends with that exception in place of its
\* return value
DispatchCleanup(i) ==
    /\ WorkersRun(pool.pc)
    /\ i \in 1..pool.n
    /\ pool.life[i] = "analyzed"
    /\ pool' =
         IF pool.pdf_path[i] /\ pool.shutdown # "no"
           THEN [pool EXCEPT
                   !.life[i] = "raising",
                   !.events[i] = Append(@, "delete_submit_refused")]
           ELSE [pool EXCEPT
                   !.life[i] = "dispatched",
                   !.io_queue = IF pool.pdf_path[i]
                                  THEN Append(@, Task("delete", i)) ELSE @,
                   !.cleanup[i] = IF pool.pdf_path[i] THEN "queued" ELSE @,
                   !.events[i] = IF pool.pdf_path[i]
                                   THEN Append(@, "cleanup_dispatched") ELSE @]
    /\ UNCHANGED <<selVars, win, rank, demux, promo, retry>>

\* _process_paper_lifecycle returns or raises: its future is done and the
\* ai_executor thread is idle again
LifecycleReturns(i) ==
    /\ WorkersRun(pool.pc)
    /\ i \in 1..pool.n
    /\ pool.life[i] \in {"dispatched", "raising"}
    /\ ReturnReady(pool.cleanup[i])
    /\ pool' = [pool EXCEPT
           !.life[i] = IF @ = "dispatched" THEN "finished" ELSE "raised",
           !.ai_running = @ \ {i}]
    /\ UNCHANGED <<selVars, win, rank, demux, promo, retry>>

\* _delete_pdf_task ends, the file deleted or the exception logged, during a
\* call of analyze_papers_parallel or after it
CleanupEnds(i) ==
    /\ pool.pc \in {"submit", "collect", "rest", "returned"}
    /\ i \in 1..pool.n
    /\ Task("delete", i) \in pool.io_running
    /\ pool' = [pool EXCEPT !.io_running = @ \ {Task("delete", i)},
                            !.cleanup[i] = "done"]
    /\ UNCHANGED <<selVars, win, rank, demux, promo, retry>>

\* as_completed yields the future of paper i; a result that is not None is
\* appended to results; the exception of a future that raised is logged and
\* passed over
CollectResult(i) ==
    /\ pool.pc = "collect"
    /\ i \in 1..pool.n
    /\ pool.life[i] \in {"finished", "raised"}
    /\ pool' = [pool EXCEPT
           !.life[i] = "collected",
           !.results = IF pool.life[i] = "finished" /\ pool.analysis_result[i]
                         THEN Append(@, i) ELSE @]
    /\ UNCHANGED <<selVars, win, rank, demux, promo, retry>>

\* every future of the call is collected: analyze_papers_parallel returns
\* results, analyze_papers_batch extends all_results and returns after the
\* last sub-batch, else rests before the next one
PoolReturns ==
    /\ pool.pc = "collect"
    /\ \A i \in (pool.lo + 1)..pool.hi : pool.life[i] = "collected"
    /\ pool' = [pool EXCEPT
           !.pc = IF pool.hi < pool.n THEN "rest" ELSE "returned",
           !.all_results = @ \o pool.results]
    /\ UNCHANGED <<selVars, win, rank, demux, promo, retry>>

\* after time.sleep(2): analyze_papers_parallel is called for the next
\* sub-batch, on the same io_executor and with a new ai_executor
NextSubBatch ==
    /\ pool.pc = "rest"
    /\ pool' = analyze_papers_parallel(pool, pool.hi,
                                       Min2(pool.hi + pool.batch_size, pool.n))
    /\ UNCHANGED <<selVars, win, rank, demux, promo, retry>>

\* shutdown_io_executor is called, before, during or after the analysis:
\* the io_executor takes no new task
shutdown_io_executor ==
    /\ pool.shutdown = "no"
    /\ pool' = [pool EXCEPT !.shutdown = "joining"]
    /\ UNCHANGED <<selVars, win, rank, demux, promo, retry>>

\* shutdown(wait=True) returns once the queued and the running tasks have
\* ended
ShutdownReturns ==
    /\ pool.shutdown = "joining"
    /\ pool.io_queue = <<>>
    /\ pool.io_running = {}
    /\ pool' = [pool EXCEPT !.shutdown = "done"]
    /\ UNCHANGED <<selVars, win, rank, demux, promo, retry>>

PoolNext ==
    \/ analyze_papers_batch
    \/ SubmitLifecycle
    \/ StartLifecycle
    \/ \E i \in 1..PoolMaxPapers : SubmitDownload(i)
    \/ IoStart
    \/ \E i \in 1..PoolMaxPapers : DownloadEnds(i)
    \/ \E i \in 1..PoolMaxPapers : CallStarts(i)
    \/ \E i \in 1..PoolMaxPapers : CallEnds(i)
    \/ \E i \in 1..PoolMaxPapers : CounterLoad(i)
    \/ \E i \in 1..PoolMaxPapers : CounterStore(i)
    \/ \E i \in 1..PoolMaxPapers : DispatchCleanup(i)
    \/ \E i \in 1..PoolMaxPapers : LifecycleReturns(i)
    \/ \E i \in 1..PoolMaxPapers : CleanupEnds(i)
    \/ \E i \in 1..PoolMaxPapers : CollectResult(i)
    \/ PoolReturns
    \/ NextSubBatch
    \/ shutdown_io_executor
    \/ ShutdownReturns

SpecPool == PoolInit /\ [][PoolNext]_vars

(***************************************************************************)
(* MultiAIAnalyzer.__init__ over the settings of a deployment: a pinned    *)
(* model or none, the keys present, an explicit order or none, and         *)
(* backends whose failures are transient or permanent.  One caller.        *)
(***************************************************************************)

\* PREFERRED_AI_MODEL: unset, a provider, or a name AIProvider rejects
PreferredModels == {""} \cup Providers \cup {ZHIPU, "gpt"}

\* the sets of providers with an API key
ConfiguredKeys ==
    {{}, {"deepseek"}, {"openai", "deepseek"}, {"gemini", "deepseek"},
     {ZHIPU, "deepseek"}, {"claude", "deepseek"}}

\* the keys of at most 10 characters: none, or that of deepseek when it is
\* the only key or gemini has one too
ConfiguredShortKeys(k) ==
    IF k \in {{"deepseek"}, {"gemini", "deepseek"}} THEN {{}, {"deepseek"}}
    ELSE {{}}

\* AI_FALLBACK_ORDER: unset, or an explicit order; a name given twice stays
\* twice in the order
ConfiguredOrders == {<<>>, <<"deepseek", "gemini">>, <<"deepseek", "deepseek">>}

ConfiguredInit ==
    /\ max_consecutive_failures \in 1..MaxK
    /\ \E m \in PreferredModels, k \in ConfiguredKeys, o \in ConfiguredOrders :
         \E short \in ConfiguredShortKeys(k) :
           config = [PREFERRED_AI_MODEL |-> m, API_KEYS |-> k,
                     SHORT_KEYS |-> short,
                     AI_FALLBACK_ORDER |-> o, API_RETRY_TIMES |-> 3]
    /\ raises \in [Providers -> ErrorKinds]
    /\ \A p \in Providers \ config.API_KEYS : raises[p] = "transient"
    /\ fallback_order = _parse_fallback_order(config)
    /\ analyzers = _initialize_analyzers(config)
    /\ failure_tracker = NewTracker
    /\ clock = 0
    /\ call = [c \in Callers |-> IdleCall]
    /\ streak = [p \in Providers |-> 0]
    /\ CoordIdle
    /\ Stage1Idle

ConfiguredNext ==
    \/ CallStep(1)
    \/ Tick

SpecConfigured == ConfiguredInit /\ [][ConfiguredNext]_vars

(***************************************************************************)
(* DeepSeekAnalyzer.analyze_papers_batch under @retry, called by           *)
(* BatchCoordinator._run_stage2_deep_analysis with the promoted papers, a  *)
(* list that is not empty.  The analyzer has one client, chosen at         *)
(* construction from the keys present.  Every attempt runs the body of the *)
(* method from its first statement: the body asks PromptManager for        *)
(* format_batch_analysis_prompt, an attribute PromptManager does not have, *)
(* and the AttributeError ends the attempt before the client is called.    *)
(***************************************************************************)

RetryMaxPapers == 3    \* the batch holds papers 1..n, n <= RetryMaxPapers

\* stop_after_attempt(3)
max_attempt_number == 3

\* the order in which __init__ looks for a key
BatchProviders == <<"qwen", "glm", "deepseek">>

\* DeepSeekAnalyzer.__init__: the first provider with a key
SelectClient(keys) == Head(FilterSeq(BatchProviders, keys))

\* tenacity's stop condition, tested after a failed attempt
stop_after_attempt(attempt_number) ==
    attempt_number >= max_attempt_number

\* what an attempt has done when it ends: the backend its batch went to, ""
\* when the attempt called none, and the exception that ended it
AttributeErrorAttempt ==
    [backend |-> "", papers |-> <<>>, exception |-> "AttributeError"]

RetryInit ==
    /\ \E keys \in SUBSET Range(BatchProviders) \ {{}}, n \in 1..RetryMaxPapers :
         retry = [pc |-> "call", keys |-> keys, provider |-> SelectClient(keys),
                  papers |-> [i \in 1..n |-> i],
                  attempt_number |-> 0,
                  attempts |-> <<>>,
                  returned |-> <<>>,
                  exception |-> ""]
    /\ max_consecutive_failures = 1
    /\ config = NoConfig
    /\ raises = AllTransient
    /\ fallback_order = <<>>
    /\ analyzers = {}
    /\ failure_tracker = NewTracker
    /\ clock = 0
    /\ call = [c \in Callers |-> IdleCall]
    /\ streak = [p \in Providers |-> 0]
    /\ Stage1Idle
    /\ promo = Idle
    /\ pool = Idle

\* tenacity begins an attempt, at the first call and after each wait: the
\* body logs, finds papers not empty and takes the system prompt
AttemptStarts ==
    /\ retry.pc \in {"call", "wait"}
    /\ retry' = [retry EXCEPT !.pc = "attempt", !.attempt_number = @ + 1]
    /\ UNCHANGED <<selVars, win, rank, demux, promo, pool>>

\* PromptManager.format_batch_analysis_prompt(papers) raises AttributeError:
\* _create_completion is not reached.  tenacity waits and calls again, or
\* after the last attempt raises RetryError out of analyze_papers_batch
AttemptFails ==
    /\ retry.pc = "attempt"
    /\ retry' = [retry EXCEPT
           !.attempts = Append(@, AttributeErrorAttempt),
           !.pc = IF stop_after_attempt(retry.attempt_number)
                    THEN "raising" ELSE "wait",
           !.exception = IF stop_after_attempt(retry.attempt_number)
                           THEN "RetryError" ELSE ""]
    /\ UNCHANGED <<selVars, win, rank, demux, promo, pool>>

\* except Exception in _run_stage2_deep_analysis: log, return []
Stage2Except ==
    /\ retry.pc = "raising"
    /\ retry' = [retry EXCEPT !.pc = "failed", !.exception = "",
                              !.returned = <<>>]
    /\ UNCHANGED <<selVars, win, rank, demux, promo, pool>>

RetryNext ==
    \/ AttemptStarts
    \/ AttemptFails
    \/ Stage2Except

SpecRetry == RetryInit /\ [][RetryNext]_vars

(***************************************************************************)
(* DeepSeekAnalyzer.rank_papers_in_batch for one window, and the loop of   *)
(* _run_stage1_ranking that collects its result.  The backend holds an     *)
(* answer to the window's ranking prompt, a text taken by its JSON shape,  *)
(* the entries of its list with or without the keys paper_id and score.    *)
(* The method asks PromptManager for get_stage1_ranking_system_prompt, an  *)
(* attribute PromptManager does not have: the AttributeError is raised     *)
(* inside the try statement, before the backend is asked, and the method   *)
(* returns [].                                                             *)
(***************************************************************************)
MaxResponse == 2   \* entries in the list of one response

\* the window: papers 1 and 2
ResponseWindow == <<1, 2>>

\* stands for a key the entry does not have
Absent == -2

\* the entries of a response: those of a ranking result, an entry without
\* the key paper_id, and an entry without the key score
ResponseEntries(chunk) ==
    Entries(chunk) \cup {[paper_id |-> Absent, score |-> 1],
                         [paper_id |-> chunk[1], score |-> Absent]}

\* a JSON list, a JSON object holding a list, a JSON object holding none,
\* another JSON value, a text that is no JSON, or an exception of the call
ResponseShapes ==
    {"list", "dict", "dict_without_list", "other_json", "invalid_json",
     "exception"}

Responses(chunk) ==
    {[shape |-> sh, list |-> l] :
        sh \in {"list", "dict"},
        l \in SeqsUpTo(ResponseEntries(chunk), MaxResponse)}
    \cup {[shape |-> sh, list |-> <<>>] :
            sh \in ResponseShapes \ {"list", "dict"}}

\* rank_papers_in_batch(papers): [] for no papers; otherwise the
\* AttributeError of the first statement of the try block goes to except
\* Exception, which logs and returns [].  The backend is not asked, so its
\* answer has no part in the result
rank_papers_in_batch(papers) ==
    IF papers = <<>> THEN <<>> ELSE <<>>

ResponseInit ==
    /\ \E response \in Responses(ResponseWindow) :
         rank = [pc |-> "submitted", chunk |-> ResponseWindow,
                 response |-> response,
                 ranking_results |-> <<>>,
                 stage1_scores |-> [k \in Range(ResponseWindow) |-> <<>>]]
    /\ max_consecutive_failures = 1
    /\ fallback_order = <<>>
    /\ analyzers = {}
    /\ failure_tracker = NewTracker
    /\ clock = 0
    /\ call = [c \in Callers |-> IdleCall]
    /\ streak = [p \in Providers |-> 0]
    /\ config = NoConfig
    /\ raises = AllTransient
    /\ CoordIdle
    /\ win = Idle
    /\ demux = Idle

\* the worker runs rank_papers_in_batch(chunk); _create_completion is not
\* called
RankWindow ==
    /\ rank.pc = "submitted"
    /\ rank' = [rank EXCEPT !.pc = "ranked",
                   !.ranking_results = rank_papers_in_batch(rank.chunk)]
    /\ UNCHANGED <<selVars, win, demux, coordVars>>

\* ranking_results = future.result(); for result in ranking_results: ...
CollectWindow ==
    /\ rank.pc = "ranked"
    /\ rank' = [rank EXCEPT !.pc = "collected",
                   !.stage1_scores = AppendScores(@, rank.ranking_results)]
    /\ UNCHANGED <<selVars, win, demux, coordVars>>

ResponseNext == RankWindow \/ CollectWindow

SpecResponse == ResponseInit /\ [][ResponseNext]_vars

(***************************************************************************)
(* BatchCoordinator.run_batch_analysis: the two-stage pipeline, which      *)
(* ranks the windows, promotes, extracts the full texts and analyses the   *)
(* promoted papers in one batch, or _run_legacy_batch_analysis, which      *)
(* analyses the papers in consecutive batches of BATCH_SIZE, one after the *)
(* other.  The analyzer is the object the coordinator was constructed      *)
(* with: a call of one of its two methods returns or raises, and the       *)
(* outcomes of the repository's DeepSeekAnalyzer are among those taken     *)
(* ([] for every window, an exception for every batch).                    *)
(***************************************************************************)
LegacyMaxN == 3          \* papers 1..N, N <= LegacyMaxN
LegacyMaxBatchSize == 2  \* BATCH_SIZE ranges over 1..LegacyMaxBatchSize

\* the ways the backend writes a section in the batches of the legacy run
LegacyVariants == {"full", "nosep", "nodelim"}

\* papers_to_process[i:i + batch_size] for i in range(0, len, batch_size)
LegacyChunks(N, batch_size) ==
    [j \in 1..((N + batch_size - 1) \div batch_size) |->
        [i \in 1..(Min2(j * batch_size, N) - (j - 1) * batch_size) |->
            (j - 1) * batch_size + i]]

RECURSIVE ConcatOf(_, _)
\* the sections of the papers of chunk, one after the other
ConcatOf(variants, chunk) ==
    IF chunk = <<>> THEN <<>>
    ELSE Section(variants[Head(chunk)], Head(chunk))
            \o ConcatOf(variants, Tail(chunk))

\* the mutant: the try statement encloses the loop, an exception ends it
StopAfterError(d) == Len(d.paper_chunks) + 1

\* except Exception inside the for loop: log, go on with the next chunk
ContinueAfterError(d) == d.idx + 1

LegacyInit ==
    /\ \E N \in 0..LegacyMaxN, batch_size \in 1..LegacyMaxBatchSize :
         demux = [pc |-> "loop", N |-> N, batch_size |-> batch_size,
                  paper_chunks |-> LegacyChunks(N, batch_size),
                  idx |-> 1,
                  outcome |-> [j \in 1..Len(LegacyChunks(N, batch_size)) |->
                                  [raised |-> FALSE, variants |-> <<>>,
                                   parsed_results |-> NoResults]],
                  all_analyzed_papers |-> <<>>]
    /\ max_consecutive_failures = 1
    /\ fallback_order = <<>>
    /\ analyzers = {}
    /\ failure_tracker = NewTracker
    /\ clock = 0
    /\ call = [c \in Callers |-> IdleCall]
    /\ streak = [p \in Providers |-> 0]
    /\ config = NoConfig
    /\ raises = AllTransient
    /\ CoordIdle
    /\ win = Idle
    /\ rank = Idle

\* the chunk at idx: analyze_papers_batch returns a text, it is parsed, and
\* the papers with a parsed result are appended
LegacyAnalyze ==
    /\ demux.pc = "loop"
    /\ demux.idx <= Len(demux.paper_chunks)
    /\ LET chunk == demux.paper_chunks[demux.idx]
       IN  \E variants \in [Range(chunk) -> LegacyVariants] :
             LET text   == ConcatOf(variants, chunk)
                 parsed == _parse_batch_analysis(text, chunk)
             IN  demux' = [demux EXCEPT
                     !.idx = @ + 1,
                     !.outcome[demux.idx] =
                         [raised |-> FALSE, variants |-> variants,
                          parsed_results |-> parsed],
                     !.all_analyzed_papers = @ \o Attach(chunk, parsed)]
    /\ UNCHANGED <<selVars, win, rank, coordVars>>

\* the chunk at idx: analyze_papers_batch raises
LegacyFails ==
    /\ demux.pc = "loop"
    /\ demux.idx <= Len(demux.paper_chunks)
    /\ demux' = [demux EXCEPT
           !.idx = ContinueAfterError(demux),
           !.outcome[demux.idx].raised = TRUE]
    /\ UNCHANGED <<selVars, win, rank, coordVars>>

\* the loop is over: return all_analyzed_papers
LegacyReturns ==
    /\ demux.pc = "loop"
    /\ demux.idx > Len(demux.paper_chunks)
    /\ demux' = [demux EXCEPT !.pc = "returned"]
    /\ UNCHANGED <<selVars, win, rank, coordVars>>

\* PROMOTION_SCORE_THRESHOLD in the runs of the pipeline: with 0 a paper
\* without a score is promoted too
PipelineThresholds == {0} \cup Thresholds

\* the pipeline is called with no papers: no window is submitted
NoPapersInit ==
    /\ rank = [pc |-> "collect", N |-> 0, paper_chunks |-> <<>>,
               pending |-> {},
               completed |-> <<>>,
               results |-> <<>>,
               stage1_scores |-> <<>>,
               all_paper_dicts |-> <<>>]
    /\ max_consecutive_failures = 1
    /\ fallback_order = <<>>
    /\ analyzers = {}
    /\ failure_tracker = NewTracker
    /\ clock = 0
    /\ call = [c \in Callers |-> IdleCall]
    /\ streak = [p \in Providers |-> 0]
    /\ config = NoConfig
    /\ raises = AllTransient
    /\ CoordIdle
    /\ win = Idle
    /\ demux = Idle

\* if not papers_with_scores: log, return []
Stage1Aborts ==
    /\ rank.pc = "done"
    /\ promo = Idle
    /\ rank.all_paper_dicts = <<>>
    /\ promo' = [pc |-> "returned",
                 papers_with_scores |-> <<>>,
                 promotion_threshold |-> 0,
                 max_to_analyze |-> 0,
                 top_papers |-> <<>>,
                 pending |-> {},
                 papers_for_deep_analysis |-> <<>>,
                 returned |-> <<>>]
    /\ UNCHANGED <<selVars, win, rank, demux, pool, retry>>

\* final_results = self._run_stage2_deep_analysis(papers_with_scores, ...):
\* the method starts on the list the ranking returned
Stage2Starts ==
    /\ rank.pc = "done"
    /\ promo = Idle
    /\ rank.all_paper_dicts # <<>>
    /\ \E threshold \in PipelineThresholds, max \in 1..RankMaxN :
         promo' = [pc |-> "promote",
                   papers_with_scores |-> rank.all_paper_dicts,
                   promotion_threshold |-> threshold,
                   max_to_analyze |-> max,
                   top_papers |-> <<>>,
                   pending |-> {},
                   papers_for_deep_analysis |-> <<>>,
                   returned |-> <<>>]
    /\ UNCHANGED <<selVars, win, rank, demux, pool, retry>>

\* use_stage_analysis, or not
PipelineInit == RankInit \/ NoPapersInit \/ LegacyInit

PipelineNext ==
    \/ \E k \in 1..RankMaxN : RankCollect(k)
    \/ \E k \in 1..RankMaxN : RankCollectError(k)
    \/ RankFinish
    \/ Stage1Aborts
    \/ Stage2Starts
    \/ Promote
    \/ \E pid \in 1..RankMaxN : ExtractCompletes(pid)
    \/ DeepAnalyze
    \/ DeepAnalyzeFails
    \/ LegacyFails
    \/ LegacyReturns
    \/ LegacyAnalyze

SpecPipeline == PipelineInit /\ [][PipelineNext]_vars

(***************************************************************************)
(* run_batch_analysis under fair scheduling: a submitted ranking or        *)
(* extraction future completes, a call of the analyzer returns or raises,  *)
(* and the thread of the coordinator goes on to its next statement.        *)
(***************************************************************************)
PipelineFairness == WF_vars(PipelineNext)

SpecPipelineFair == PipelineInit /\ [][PipelineNext]_vars /\ PipelineFairness

(***************************************************************************)
(* FailureTracker driven directly: record_failure, record_success, the     *)
(* passage of time and the recovery sweep of the selector, in any order,   *)
(* each call running to completion before the next.                        *)
(***************************************************************************)
\* the providers the tracker is called for: the one the sweep passes over
\* and one it handles
TrackerProviders == {GEMINI, "deepseek"}

TrackerInit ==
    /\ max_consecutive_failures \in 1..MaxK
    /\ failure_tracker = NewTracker
    /\ clock = 0
    /\ fallback_order = <<>>
    /\ analyzers = {}
    /\ call = [c \in Callers |-> IdleCall]
    /\ streak = [p \in Providers |-> 0]
    /\ config = NoConfig
    /\ raises = AllTransient
    /\ Stage1Idle
    /\ CoordIdle

\* failure_tracker.record_failure(provider); the counter is capped to keep
\* the state space finite
TrackerFailure(provider) ==
    /\ failure_tracker.failure_counts[provider] <= MaxK
    /\ failure_tracker' = record_failure(failure_tracker, provider, clock,
                                         max_consecutive_failures)
    /\ streak' = [streak EXCEPT ![provider] =
           IF @ = -1 \/ (@ > 0 /\ Expired(failure_tracker, provider, clock))
             THEN -1 ELSE @ + 1]
    /\ UNCHANGED <<max_consecutive_failures, fallback_order, analyzers,
                   clock, call, win, rank, demux, cfgVars, coordVars>>

\* failure_tracker.record_success(provider)
TrackerSuccess(provider) ==
    /\ failure_tracker' = record_success(failure_tracker, provider)
    /\ streak' = [streak EXCEPT ![provider] = 0]
    /\ UNCHANGED <<max_consecutive_failures, fallback_order, analyzers,
                   clock, call, win, rank, demux, cfgVars, coordVars>>

\* _reset_some_failures()
TrackerSweep ==
    /\ failure_tracker' = _reset_some_failures(failure_tracker,
                                               max_consecutive_failures)
    /\ streak' = [p \in Providers |->
           IF is_disabled(failure_tracker, p) /\ ~SweepExempt(p)
             THEN -1 ELSE streak[p]]
    /\ UNCHANGED <<max_consecutive_failures, fallback_order, analyzers,
                   clock, call, win, rank, demux, cfgVars, coordVars>>

TrackerNext ==
    \/ \E provider \in TrackerProviders : TrackerFailure(provider)
    \/ \E provider \in TrackerProviders : TrackerSuccess(provider)
    \/ TrackerSweep
    \/ Tick

SpecTracker == TrackerInit /\ [][TrackerNext]_vars

(***************************************************************************)
(* ParallelPaperAnalyzer: the counters successful_analyses and             *)
(* failed_analyses over one call of analyze_papers_parallel, reached       *)
(* through analyze_papers_batch with a batch_size that takes the whole     *)
(* list.  papers_dir is not set and shutdown_io_executor is not called     *)
(* before the call returns: no I/O task exists and no lifecycle raises, so *)
(* the counters are touched by the increments of the lifecycles alone.     *)
(***************************************************************************)
TallyInit ==
    /\ \E n \in 1..PoolMaxPapers, w \in 1..PoolMaxWorkers,
          f \in 1..MaxFactor, cpu \in CpuCounts :
         pool = [pc |-> "constructed", n |-> n, batch_size |-> n,
                 lo |-> 0, hi |-> 0, max_workers |-> w,
                 max_io_workers_factor |-> f,
                 max_io_workers |-> max_io_workers(w, f, cpu),
                 papers_dir |-> FALSE, shutdown |-> "no",
                 ai_queue |-> <<>>, ai_running |-> {},
                 io_queue |-> <<>>, io_running |-> {},
                 life |-> [i \in 1..n |-> "pending"],
                 pdf_path |-> [i \in 1..n |-> FALSE],
                 analysis_result |-> [i \in 1..n |-> FALSE],
                 cleanup |-> [i \in 1..n |-> "none"],
                 events |-> [i \in 1..n |-> <<>>],
                 loaded |-> [i \in 1..n |-> 0],
                 successful_analyses |-> 0, failed_analyses |-> 0,
                 results |-> <<>>, all_results |-> <<>>]
    /\ max_consecutive_failures = 1
    /\ fallback_order = <<>>
    /\ analyzers = {}
    /\ failure_tracker = NewTracker
    /\ clock = 0
    /\ call = [c \in Callers |-> IdleCall]
    /\ streak = [p \in Providers |-> 0]
    /\ config = NoConfig
    /\ raises = AllTransient
    /\ Stage1Idle
    /\ promo = Idle
    /\ retry = Idle

\* the steps of the main thread and of the ai_executor threads
TallyNext ==
    \/ analyze_papers_batch
    \/ SubmitLifecycle
    \/ StartLifecycle
    \/ \E i \in 1..PoolMaxPapers : SubmitDownload(i)
    \/ \E i \in 1..PoolMaxPapers : CallStarts(i)
    \/ \E i \in 1..PoolMaxPapers : CallEnds(i)
    \/ \E i \in 1..PoolMaxPapers : CounterLoad(i)
    \/ \E i \in 1..PoolMaxPapers : CounterStore(i)
    \/ \E i \in 1..PoolMaxPapers : DispatchCleanup(i)
    \/ \E i \in 1..PoolMaxPapers : LifecycleReturns(i)
    \/ \E i \in 1..PoolMaxPapers : CollectResult(i)
    \/ PoolReturns

SpecTally == TallyInit /\ [][TallyNext]_vars

(***************************************************************************)
(* analyze_papers_parallel under fair scheduling: as long as a thread of   *)
(* either pool or the main thread can take a step, a step is taken; in     *)
(* particular a running download, backend call or delete task ends.  No    *)
(* fairness towards a particular thread is assumed.                        *)
(***************************************************************************)
PoolFairness == WF_vars(PoolNext)

SpecPoolFair == PoolInit /\ [][PoolNext]_vars /\ PoolFairness

(***************************************************************************)
(* Properties of the failure tracker and the selector                      *)
(***************************************************************************)
Last(s) == s[Len(s)]

\* streak[p] = n >= 0 says: n record_failure calls for provider p have
\* returned since its last record_success returned (or since construction),
\* none of them found the reset window elapsed after an earlier one, none
\* of them overlapped a record_success, and no sweep has stored p's
\* counter since.  streak[p] < 0 otherwise: -2 from the moment a
\* record_success overlaps another call for p until a record_success that
\* overlaps none is entered, else -1.

\* C1: with max_consecutive_failures = k, a backend that received n
\* consecutive failures inside the reset window has counter n and is
\* disabled exactly when n >= k (after the k-th and not before); after a
\* record_success (n = 0) the counter is 0 and the backend is enabled, so k
\* further failures are needed.
C1_KFailuresDisable ==
    \A p \in Providers : streak[p] >= 0 =>
        /\ failure_tracker.failure_counts[p] = streak[p]
        /\ is_disabled(failure_tracker, p) <=> streak[p] >= max_consecutive_failures

C1_Witness ==
    \E p \in Providers :
        /\ max_consecutive_failures >= 2
        /\ streak[p] = max_consecutive_failures
        /\ is_disabled(failure_tracker, p)

C1_WitnessReset ==
    \E p \in Providers :
        /\ streak[p] = 0
        /\ failure_tracker.last_failure_time[p] # NoTime
        /\ ~is_disabled(failure_tracker, p)

\* caller c takes this step
Steps(c) == call'[c] # call[c]

\* this step is the list comprehension of caller c looking at provider p
ReadsCandidate(c, p) ==
    /\ call[c].pc = "list"
    /\ Steps(c)
    /\ fallback_order[call[c].j] = p

WindowElapsed(p) ==
    /\ failure_tracker.last_failure_time[p] # NoTime
    /\ clock - failure_tracker.last_failure_time[p] > reset_time

\* C2: a disabled backend whose last failure is older than the reset window
\* is healthy (counter 0, not disabled, a candidate again) once a selection
\* attempt has looked at it.
C2_WindowElapsedReenables ==
    [][\A c \in Callers : \A p \in Providers :
         (/\ ReadsCandidate(c, p)
          /\ p \in analyzers
          /\ is_available(config, p)
          /\ is_disabled(failure_tracker, p)
          /\ WindowElapsed(p)) =>
                /\ ~is_disabled(failure_tracker', p)
                /\ failure_tracker'.failure_counts[p] = 0
                /\ p \in Range(call'[c].available_providers)]_vars

\* the places of _reset_some_failures
SweepPcs == {"sweep", "sweep_load", "sweep_store", "sweep_test", "sweep_remove"}

\* C3: a selection attempt whose candidate list is empty runs one sweep, and
\* no other attempt runs one: the sweep goes through the disabled providers
\* other than gemini, lowers the counter of each by one (not below 0) and
\* re-enables it exactly when the new counter is below max; gemini keeps its
\* counter and stays disabled; nothing else changes.  Stated for calls that
\* do not overlap.
C3_RecoverySweep ==
    [][\A c \in Callers : Steps(c) =>
         LET cl  == call[c]
             new == call'[c]
             old == failure_tracker
             tr  == failure_tracker'
             p   == cl.provider
         IN  /\ (cl.pc = "list" /\ new.pc # "list") =>
                    (new.pc = "sweep" <=> (new.available_providers = <<>> /\ ~cl.swept))
             /\ new.pc \in SweepPcs => cl.pc \in SweepPcs \cup {"list"}
             /\ cl.pc = "sweep" =>
                    /\ new.swept
                    /\ new.copy = old.disabled_providers \ {GEMINI}
             /\ cl.pc = "sweep_store" =>
                    tr.failure_counts[p] = Max2(0, old.failure_counts[p] - 1)
             /\ (cl.pc \in {"sweep_test", "sweep_remove"} /\ new.pc # "sweep_remove") =>
                    (p \in tr.disabled_providers
                        <=> tr.failure_counts[p] >= max_consecutive_failures)
             /\ cl.pc \in SweepPcs =>
                    /\ tr.last_failure_time = old.last_failure_time
                    /\ \A q \in Providers \ {p} :
                         /\ tr.failure_counts[q] = old.failure_counts[q]
                         /\ q \in tr.disabled_providers <=> q \in old.disabled_providers
                    /\ (new.pc = "list" /\ GEMINI \in old.disabled_providers) =>
                         GEMINI \in tr.disabled_providers]_vars

\* a sweep has re-enabled deepseek while gemini stayed disabled
C3_Witness ==
    \E c \in Callers :
        /\ call[c].swept
        /\ call[c].pc = "loop"
        /\ call[c].attempted_providers = <<>>
        /\ call[c].available_providers = <<"deepseek">>
        /\ fallback_order = <<"gemini", "deepseek">>
        /\ is_disabled(failure_tracker, GEMINI)

\* the second candidate list of caller c is built and empty
SweptToNone(c) ==
    /\ call[c].swept
    /\ call[c].pc \in {"loop", "done"}
    /\ call[c].available_providers = <<>>
    /\ call[c].result # RaisedKeyError

\* C4: a call whose sweep left no candidate returns the exhaustion outcome
\* and invokes no backend.
C4_ExhaustionWithoutCall ==
    \A c \in Callers :
        SweptToNone(c) =>
            /\ call[c].attempted_providers = <<>>
            /\ call[c].answered = <<>>
            /\ call[c].pc = "done" => call[c].result.provider = "error"

C4_Witness ==
    \E c \in Callers :
        /\ SweptToNone(c)
        /\ call[c].pc = "done"
        /\ Range(fallback_order) \subseteq failure_tracker.disabled_providers

\* the places of a call between the invocation of a backend and the return
\* of record_success or record_failure
RecordSuccessPcs == {"rs_test", "rs_remove"}

RecordFailurePcs ==
    {"rf_time", "rf_check", "rf_reset", "rf_load", "rf_store", "rf_stime",
     "rf_max", "rf_add"}

AttemptPcs == {"await"} \cup RecordSuccessPcs \cup RecordFailurePcs

\* the shape of one call: attempts follow the candidate list, every attempt
\* but the one under way is recorded, a record before the last one is a
\* failure, no backend is invoked after one has answered, and the call ends
\* with the answer of the last backend or, the list exhausted, with the
\* error dict
C5_CallShape(c) ==
    LET cl == call[c]
        n  == Len(cl.attempted_providers)
        m  == Len(cl.recorded)
    IN  /\ n <= Len(cl.available_providers)
        /\ cl.attempted_providers = SubSeq(cl.available_providers, 1, n)
        /\ m = IF cl.pc \in AttemptPcs THEN n - 1 ELSE n
        /\ \A i \in 1..m : cl.recorded[i][1] = cl.attempted_providers[i]
        /\ \A i \in 1..(m - 1) : cl.recorded[i][2] = "failure"
        /\ cl.answered # <<>> =>
              /\ cl.answered = <<Last(cl.attempted_providers)>>
              /\ cl.pc \in RecordSuccessPcs \cup {"done"}
              /\ cl.result.provider = Last(cl.attempted_providers)
        /\ cl.pc = "done" =>
              IF cl.answered # <<>>
                THEN Last(cl.recorded) = <<Last(cl.attempted_providers), "success">>
                ELSE /\ cl.result = ExhaustionResult
                     /\ n = Len(cl.available_providers)
                     /\ \A i \in 1..m : cl.recorded[i][2] = "failure"

\* the tracker updates of an attempt at backend B: they touch the entry of B
\* only; the success leaves B with counter 0 and enabled, the failure with
\* a counter of at least 1 and a last failure time
C5_RecordStep(c) ==
    (Steps(c) /\ call[c].pc \in AttemptPcs) =>
        LET B == Last(call[c].attempted_providers)
        IN  /\ (call[c].pc \in RecordSuccessPcs /\ call'[c].pc = "done") =>
                /\ failure_tracker'.failure_counts[B] = 0
                /\ ~is_disabled(failure_tracker', B)
            /\ call'[c].pc = "loop" =>
                /\ failure_tracker'.failure_counts[B] >= 1
                /\ failure_tracker'.last_failure_time[B] # NoTime
            /\ \A A \in Providers \ {B} :
                /\ failure_tracker'.failure_counts[A] = failure_tracker.failure_counts[A]
                /\ failure_tracker'.last_failure_time[A] = failure_tracker.last_failure_time[A]
                /\ is_disabled(failure_tracker', A) <=> is_disabled(failure_tracker, A)

\* C5: within one call the candidates are invoked in fallback order; a
\* failure is recorded before the next candidate is tried; at the first
\* success a success is recorded, that backend's result is returned and no
\* further backend is invoked; the success of B leaves the failure state of
\* every other backend A as it was.  Stated for calls that do not overlap.
C5_FallbackOrder ==
    /\ [](\A c \in Callers : C5_CallShape(c))
    /\ [][\A c \in Callers : C5_RecordStep(c)]_vars

\* A failed and is disabled, B succeeded and its result is returned
C5_Witness ==
    \E c \in Callers :
        /\ call[c].pc = "done"
        /\ Len(call[c].attempted_providers) = 2
        /\ call[c].attempted_providers[1] # call[c].attempted_providers[2]
        /\ call[c].result.provider = call[c].attempted_providers[2]
        /\ is_disabled(failure_tracker, call[c].attempted_providers[1])

(***************************************************************************)
(* Properties of the window construction                                   *)
(***************************************************************************)
\* C7: no window has fewer than window_size / 2 items unless the whole
\* input has; checked for every N, window size and step of the model, which
\* include every step S with 1 <= S <= W.
C7_NoRuntWindow ==
    \A k \in 1..Len(win.paper_chunks) :
        \/ 2 * Len(win.paper_chunks[k]) >= win.window_size
        \/ 2 * win.N < win.window_size

\* a trailing chunk smaller than W/2 has been merged into the window before it
C7_Witness ==
    /\ win.pc = "done"
    /\ win.i < win.N
    /\ win.step_size >= 1 /\ win.step_size <= win.window_size
    /\ IsRunt(win.N - win.i, win.window_size)
    /\ Len(win.paper_chunks) >= 2

Scenario23 ==
    win.pc = "done" /\ win.N = 23 /\ win.window_size = 10 /\ win.step_size = 5

\* C8 as stated: 23 items, window 10, step 5 give exactly 2 windows, the
\* last one holding 13 items.
C8_TwoWindowsOf23 ==
    Scenario23 =>
        /\ Len(win.paper_chunks) = 2
        /\ Len(Last(win.paper_chunks)) = 13

\* C8 amended: 23 items, window 10, step 5 give 4 windows of 10, 10, 10 and
\* 11 entries: the window of items 16..23 with the trailing chunk 21..23
\* appended to it.  The 2 windows of 10 and 13 items are what step 10 gives.
C8_FourWindowsOf23 ==
    /\ Scenario23 =>
          /\ Len(win.paper_chunks) = 4
          /\ \A k \in 1..3 : win.paper_chunks[k] = [j \in 1..10 |-> 5 * (k - 1) + j]
          /\ win.paper_chunks[4] = <<16, 17, 18, 19, 20, 21, 22, 23, 21, 22, 23>>
    /\ (win.pc = "done" /\ win.N = 23 /\ win.window_size = 10 /\ win.step_size = 10) =>
          /\ Len(win.paper_chunks) = 2
          /\ Len(win.paper_chunks[1]) = 10
          /\ win.paper_chunks[2] = [j \in 1..13 |-> 10 + j]

C8_Witness == Scenario23 /\ win.i = 20

(***************************************************************************)
(* Properties of the score aggregation                                     *)
(***************************************************************************)
\* every numeric score some window's result carries for paper p
ReturnedScores(p) ==
    {rank.results[kj[1]].list[kj[2]].score :
        kj \in {x \in (DOMAIN rank.results) \X (1..MaxEntries + 1) :
            /\ ~rank.results[x[1]].raised
            /\ x[2] <= Len(rank.results[x[1]].list)
            /\ rank.results[x[1]].list[x[2]].paper_id = p
            /\ rank.results[x[1]].list[x[2]].score # BadScore}}

AggregatedScore(p) ==
    LET at == CHOOSE j \in 1..rank.N : rank.all_paper_dicts[j].paper_id = p
    IN  rank.all_paper_dicts[at].stage1_score

\* C6: after Stage 1 the aggregated score of every item that received a
\* score is the greatest of all scores returned for it, in whatever order
\* the windows completed.
C6_MaxAggregation ==
    rank.pc = "done" =>
        \A p \in 1..rank.N :
            ReturnedScores(p) # {} =>
                /\ AggregatedScore(p) \in ReturnedScores(p)
                /\ \A x \in ReturnedScores(p) : x <= AggregatedScore(p)

\* paper 2 lies in two windows; the second window completed first and gave
\* the higher score
C6_Witness ==
    /\ rank.pc = "done"
    /\ rank.completed = <<2, 1>>
    /\ rank.stage1_scores[2] = <<2, 1>>
    /\ 2 \in Range(rank.paper_chunks[1]) /\ 2 \in Range(rank.paper_chunks[2])

(***************************************************************************)
(* Properties of the de-multiplexing                                       *)
(***************************************************************************)
RECURSIVE BackOverWs(_, _)
\* the last position before q that holds no white space, or 0
BackOverWs(text, q) ==
    IF q - 1 >= 1 /\ text[q - 1] = WS THEN BackOverWs(text, q - 1) ELSE q - 1

\* the text holds the delimiter of paper k: "Paper ID:", optional white
\* space, the id of k
HasDelimiter(text, k) ==
    \E q \in 1..Len(text) :
        /\ text[q] = Tok("id", k)
        /\ BackOverWs(text, q) >= 1
        /\ text[BackOverWs(text, q)] = P

Delimited == {k \in Range(demux.papers) : HasDelimiter(demux.batch_text, k)}

\* text of paper x occurs in the content
Mentions(content, x) ==
    \E j \in 1..Len(content) : content[j].t \in {"hdr", "body"} /\ content[j].k = x

\* C9: a paper X whose delimiter is missing from the response gets no
\* result entry, and no other paper's recorded text holds text of X.
C9_NoMergeIntoNeighbour ==
    demux.pc = "returned" =>
        \A x \in Range(demux.papers) \ Delimited :
            /\ x \notin DOMAIN demux.parsed_results
            /\ \A y \in DOMAIN demux.parsed_results :
                  ~Mentions(demux.parsed_results[y], x)

\* C10: for a batch of n papers whose response holds the delimiters of the
\* papers D, exactly the papers of D are returned, each once and in batch
\* order, so at most n; the preamble is part of no result; the call returns.
C10_OneResultPerDelimiter ==
    demux.pc = "returned" =>
        LET ids == [j \in 1..Len(demux.returned) |-> demux.returned[j].paper_id]
        IN  /\ DOMAIN demux.parsed_results = Delimited
            /\ ids = FilterSeq(demux.papers, Delimited)
            /\ Len(demux.returned) = Cardinality(Delimited)
            /\ Len(demux.returned) <= Len(demux.papers)
            /\ \A j \in 1..Len(demux.returned) :
                  /\ demux.returned[j].analysis = demux.parsed_results[ids[j]]
                  /\ PRE \notin Range(demux.returned[j].analysis)

\* 5 papers, the delimiter of paper 3 missing, a preamble: 4 results
C10_Witness ==
    /\ demux.pc = "returned"
    /\ Len(demux.papers) = 5
    /\ Delimited = {1, 2, 4, 5}
    /\ Len(demux.returned) = 4
    /\ Mentions(demux.batch_text, 3)
    /\ demux.batch_text[1] = PRE

(***************************************************************************)
(* Properties of promotion and of the list the pipeline returns            *)
(***************************************************************************)
\* the papers of the ranked list with a score at or above the threshold, in
\* the order of the ranked list
RECURSIVE AtOrAbove(_, _)
AtOrAbove(ranked, threshold) ==
    IF ranked = <<>> THEN <<>>
    ELSE IF Head(ranked).stage1_score >= threshold
           THEN <<Head(ranked)>> \o AtOrAbove(Tail(ranked), threshold)
           ELSE AtOrAbove(Tail(ranked), threshold)

\* C11: promotion returns the items of the ranked list whose score is at or
\* above the threshold, cut to the first max_promote of them in rank order,
\* items of equal score in the order of the ranked list; being a function of
\* the ranked list, the threshold and the limit it is the same on every
\* application.
C11_PromotionInRankOrder ==
    promo.pc \in {"extract", "analyze", "returned"} =>
        promo.top_papers =
            Truncate(AtOrAbove(promo.papers_with_scores, promo.promotion_threshold),
                     promo.max_to_analyze)

\* the position of paper pid in the ranked list
RankOf(pid) ==
    CHOOSE i \in 1..Len(promo.papers_with_scores) :
        promo.papers_with_scores[i].paper_id = pid

\* C12: the list the two-stage pipeline returns holds the analysed papers in
\* rank order, whatever order the full-text extractions complete in.
C12_ReturnedInRankOrder ==
    promo.pc \in {"returned", "failed"} =>
        \A i, j \in 1..Len(promo.returned) :
            i < j => RankOf(promo.returned[i]) < RankOf(promo.returned[j])

(***************************************************************************)
(* Properties of the worker-pool executor                                  *)
(***************************************************************************)
IsPrefix(s, t) == Len(s) <= Len(t) /\ s = SubSeq(t, 1, Len(s))

\* the three lifecycle events of a paper whose download gave a path, in order
WithDownload == <<"fetch_done", "call_start", "call_end", "cleanup_dispatched">>

WithoutDownload == <<"fetch_skipped", "call_start", "call_end">>

\* the lifecycle of a paper whose download could not be submitted
SubmitRefused == <<"submit_refused">>

\* the lifecycle of a paper whose delete task could not be submitted
DeleteRefused == <<"fetch_done", "call_start", "call_end", "delete_submit_refused">>

\* C13: for every paper the events of its lifecycle occur in strict order:
\* the fetch has completed (or was skipped) before its backend call starts,
\* and its cleanup task is dispatched only after its backend call has ended.
C13_LifecycleOrder ==
    pool.pc # "unused" =>
        \A i \in 1..pool.n :
            \/ IsPrefix(pool.events[i], WithDownload)
            \/ IsPrefix(pool.events[i], WithoutDownload)
            \/ pool.events[i] = SubmitRefused
            \/ pool.events[i] = DeleteRefused

\* a paper has gone through fetch, call and cleanup dispatch while a paper
\* submitted before it still waits for its download: no order between papers
C13_Witness ==
    /\ pool.pc = "collect"
    /\ \E i, j \in 1..pool.n :
         /\ i < j
         /\ pool.life[i] = "waiting"
         /\ pool.events[j] = WithDownload

\* C14: once the worker has submitted the cleanup task its return is never
\* held back, whatever the state of that task: the result is collectable and
\* the analysis-pool thread is free for the next paper while the cleanup is
\* still queued or running.
C14_CleanupNeverBlocks ==
    /\ WorkersRun(pool.pc) =>
          \A i \in 1..pool.n :
              /\ pool.life[i] = "dispatched" => ENABLED LifecycleReturns(i)
              /\ pool.life[i] = "finished" => i \notin pool.ai_running
    /\ pool.pc = "collect" =>
          \A i \in 1..pool.n :
              pool.life[i] = "finished" => ENABLED CollectResult(i)

\* the result of paper i is collected and the lifecycle of the next paper
\* has started on the only analysis thread while the cleanup of paper i has
\* not finished
C14_Witness ==
    /\ pool.pc = "collect"
    /\ pool.max_workers = 1
    /\ \E i, j \in 1..pool.n :
         /\ i < j
         /\ pool.life[i] = "collected"
         /\ pool.cleanup[i] \in {"queued", "running"}
         /\ j \in pool.ai_running
         /\ pool.life[j] \in {"waiting", "ready", "analyzing"}

\* C15: at most max_workers backend calls are in progress, at most
\* max_workers * max_io_workers_factor fetch and cleanup tasks are in
\* progress, and a running fetch or cleanup is a task of the I/O pool.
C15_PoolBounds ==
    pool.pc # "unused" =>
        /\ Cardinality({i \in 1..pool.n : pool.life[i] = "analyzing"})
               <= pool.max_workers
        /\ Cardinality(pool.ai_running) <= pool.max_workers
        /\ Cardinality(pool.io_running)
               <= pool.max_workers * pool.max_io_workers_factor
        /\ \A t \in pool.io_running : t.task \in {"download", "delete"}
        /\ \A i \in 1..pool.n :
               pool.cleanup[i] = "running" <=> Task("delete", i) \in pool.io_running

\* both pools are full and a task waits for an I/O thread
C15_Witness ==
    /\ pool.pc = "collect"
    /\ Cardinality(pool.ai_running) = pool.max_workers
    /\ Cardinality(pool.io_running) = pool.max_workers * pool.max_io_workers_factor
    /\ pool.io_queue # <<>>

(***************************************************************************)
(* Properties of the tracker under concurrent workers                      *)
(***************************************************************************)
\* no call of record_failure or record_success for provider p is under way
Quiescent(p) ==
    \A c \in Callers :
        call[c].pc \in RecordSuccessPcs \cup RecordFailurePcs
            => call[c].available_providers[call[c].idx] # p

\* C16: when several workers record failures or successes for the same
\* backend concurrently, no update is lost: once the calls have returned,
\* with n failures since the last success (all of them inside the reset
\* window, no sweep) the counter is n, and the backend is disabled whenever
\* n >= max.
C16_NoLostUpdate ==
    \A p \in Providers :
        (Quiescent(p) /\ streak[p] >= 0) =>
            /\ failure_tracker.failure_counts[p] = streak[p]
            /\ streak[p] >= max_consecutive_failures
                   => is_disabled(failure_tracker, p)

(***************************************************************************)
(* Properties of the configured selector                                   *)
(***************************************************************************)

\* provider p has failed permanently in the call that caller c is in
FailedPermanently(c, p) ==
    /\ raises[p] = "permanent"
    /\ <<p, "failure">> \in Range(call[c].recorded)

\* C18: a backend that has failed with a permanent error is disabled at once,
\* whatever its consecutive-failure counter.
C18_PermanentFailureDisables ==
    \A c \in Callers : \A p \in Providers :
        FailedPermanently(c, p) => is_disabled(failure_tracker, p)

\* a pinned backend is configured and its credential is present
Pinned ==
    /\ IsProvider(config.PREFERRED_AI_MODEL)
    /\ config.PREFERRED_AI_MODEL \in config.API_KEYS

\* C20: with a pinned backend whose credential is present, the fallback order
\* is that backend alone, and every candidate list and every invocation of
\* the selector names no other backend, whatever has failed or is disabled.
C20_PinnedBackendOnly ==
    Pinned =>
        /\ fallback_order = <<config.PREFERRED_AI_MODEL>>
        /\ \A c \in Callers :
             /\ Range(call[c].available_providers) \subseteq {config.PREFERRED_AI_MODEL}
             /\ Range(call[c].attempted_providers) \subseteq {config.PREFERRED_AI_MODEL}
             /\ call[c].result.provider \in {"", "error", config.PREFERRED_AI_MODEL}
        /\ \A q \in Providers \ {config.PREFERRED_AI_MODEL} :
             /\ failure_tracker.failure_counts[q] = 0
             /\ failure_tracker.last_failure_time[q] = NoTime

\* the pinned backend is disabled and a call has ended in exhaustion without
\* any invocation, although another backend has a key and an analyzer
C20_Witness ==
    /\ Pinned
    /\ is_disabled(failure_tracker, config.PREFERRED_AI_MODEL)
    /\ analyzers \ {config.PREFERRED_AI_MODEL} # {}
    /\ call[1].pc = "done"
    /\ call[1].result = ExhaustionResult
    /\ call[1].attempted_providers = <<>>

\* the pinned backend has failed in this call and the call still ended in
\* exhaustion, with another backend at hand
C20_WitnessFailed ==
    /\ Pinned
    /\ analyzers \ {config.PREFERRED_AI_MODEL} # {}
    /\ call[1].pc = "done"
    /\ call[1].result = ExhaustionResult
    /\ call[1].attempted_providers = <<config.PREFERRED_AI_MODEL>>

(***************************************************************************)
(* Properties of the retried batch call                                    *)
(***************************************************************************)

\* the backend after p in the order of the backends with a key; "" after the
\* last one and after ""
NextBackend(p) ==
    LET seq == FilterSeq(BatchProviders, retry.keys)
    IN  IF \E i \in 1..(Len(seq) - 1) : seq[i] = p
          THEN seq[(CHOOSE i \in 1..(Len(seq) - 1) : seq[i] = p) + 1]
          ELSE ""

\* at most 3 attempts are made
AtMostThrice == Len(retry.attempts) <= 3 /\ retry.attempt_number <= 3

\* after the last failed attempt: three attempts, the exception is caught in
\* the coordinator, which returns no result
EndsEmpty ==
    /\ retry.pc = "raising" => ENABLED Stage2Except
    /\ retry.pc = "failed" =>
          /\ Len(retry.attempts) = 3
          /\ retry.returned = <<>>
          /\ retry.exception = ""

\* C19: a retry, that is every attempt after the first, sends the whole batch
\* to a backend, the one that follows the backend of the attempt before in
\* the fallback sequence when there is one; at most 3 attempts are made, and
\* after the last one the batch yields no result and no exception.
C19_RetriedOnNextBackend ==
    /\ AtMostThrice
    /\ \A k \in 2..Len(retry.attempts) :
         /\ retry.attempts[k].backend # ""
         /\ retry.attempts[k].papers = retry.papers
         /\ NextBackend(retry.attempts[k - 1].backend) # "" =>
              retry.attempts[k].backend =
                  NextBackend(retry.attempts[k - 1].backend)
    /\ EndsEmpty

(***************************************************************************)
(* Properties of the failure window                                        *)
(***************************************************************************)

\* provider p has failed before, more than reset_time ago
PreviousFailureExpired(p) ==
    /\ failure_tracker.last_failure_time[p] # NoTime
    /\ clock > failure_tracker.last_failure_time[p] + reset_time

\* C21: a record_failure that arrives more than reset_time after the
\* backend's previous failure leaves the counter at 1; one that arrives
\* within reset_time (or a first failure) leaves it one above its value
\* before the call.
C21_WindowedCount ==
    [][\A p \in Providers :
         TrackerFailure(p) =>
            failure_tracker'.failure_counts[p] =
                IF PreviousFailureExpired(p)
                  THEN 1
                  ELSE failure_tracker.failure_counts[p] + 1]_vars

\* a failure after the window has restarted a streak that had begun
C21_Witness ==
    \E p \in Providers :
        /\ streak[p] = -1
        /\ failure_tracker.failure_counts[p] = 1
        /\ failure_tracker.last_failure_time[p] = clock
        /\ clock > reset_time

\* two failures within the window have been counted one after the other
C21_WitnessWithin ==
    \E p \in Providers :
        /\ streak[p] = 2
        /\ failure_tracker.failure_counts[p] = 2

(***************************************************************************)
(* Properties of the Stage 1 result                                        *)
(***************************************************************************)

\* the list Stage 1 returns
Stage1Result == rank.all_paper_dicts

\* C22: Stage 1 returns every input item once, in descending order of the
\* aggregated score; an item without a score has score 0 and stands behind
\* every item with a positive score; items with equal scores stand in their
\* input order.
C22_SortedWithSentinel ==
    rank.pc = "done" =>
        /\ Len(Stage1Result) = rank.N
        /\ {Stage1Result[i].paper_id : i \in 1..rank.N} = 1..rank.N
        /\ \A i, j \in 1..rank.N :
             i < j =>
               /\ Stage1Result[i].stage1_score >= Stage1Result[j].stage1_score
               /\ Stage1Result[i].stage1_score = Stage1Result[j].stage1_score
                    => Stage1Result[i].paper_id < Stage1Result[j].paper_id
        /\ \A i \in 1..rank.N :
             rank.stage1_scores[Stage1Result[i].paper_id] = <<>> =>
               /\ Stage1Result[i].stage1_score = 0
               /\ \A j \in 1..rank.N :
                    Stage1Result[j].stage1_score > 0 => j < i

\* the first input item got no score and stands behind the second, which
\* got one
C22_Witness ==
    /\ rank.pc = "done"
    /\ rank.N >= 2
    /\ rank.stage1_scores[1] = <<>>
    /\ rank.stage1_scores[2] # <<>>
    /\ Stage1Result[1].paper_id = 2
    /\ Stage1Result[rank.N].stage1_score = 0

\* two items with the same positive score stand in input order
C22_WitnessTie ==
    /\ rank.pc = "done"
    /\ rank.N >= 2
    /\ Stage1Result[1].stage1_score > 0
    /\ Stage1Result[1].stage1_score = Stage1Result[2].stage1_score

(***************************************************************************)
(* Properties of one window's ranking response                             *)
(***************************************************************************)

\* an entry with an id and a numeric score
WellFormed(item) ==
    /\ item.paper_id \notin {NoId, Absent}
    /\ item.score \notin {BadScore, Absent}

RECURSIVE WellFormedScores(_, _)
\* the scores the well-formed entries of list give for paper p, in order
WellFormedScores(list, p) ==
    IF list = <<>> THEN <<>>
    ELSE IF WellFormed(Head(list)) /\ Head(list).paper_id = p
           THEN <<Head(list).score>> \o WellFormedScores(Tail(list), p)
           ELSE WellFormedScores(Tail(list), p)

\* C23: of the entries of the list the backend answers a window with, those
\* with a non-numeric score or without an id contribute no score, and the
\* well-formed ones contribute theirs: the scores collected for a paper are
\* exactly the scores of its well-formed entries.
C23_MalformedEntriesDropped ==
    (rank.pc = "collected" /\ rank.response.shape \in {"list", "dict"}) =>
        \A p \in Range(rank.chunk) :
            rank.stage1_scores[p] = WellFormedScores(rank.response.list, p)

(***************************************************************************)
(* Properties of failing windows and batches                               *)
(***************************************************************************)

\* the ids of the papers the legacy run returns
AnalyzedIds ==
    {demux.all_analyzed_papers[i].paper_id :
        i \in 1..Len(demux.all_analyzed_papers)}

\* batch j was submitted: its call raised or returned a text
Processed(j) ==
    \/ demux.outcome[j].raised
    \/ DOMAIN demux.outcome[j].variants = Range(demux.paper_chunks[j])

\* the backend's text for batch j holds no delimiter at all
Unparseable(j) ==
    /\ ~demux.outcome[j].raised
    /\ \A p \in Range(demux.paper_chunks[j]) :
          demux.outcome[j].variants[p] = "nodelim"

\* batch j contributes nothing
ContributesNothing(j) ==
    Range(demux.paper_chunks[j]) \cap AnalyzedIds = {}

\* batch j contributes the papers whose section starts with the delimiter
ContributesDelimited(j) ==
    \A p \in Range(demux.paper_chunks[j]) :
        demux.outcome[j].variants[p] \in {"full", "nosep"} => p \in AnalyzedIds

\* run_batch_analysis has returned, from the two-stage pipeline or from the
\* legacy run
PipelineReturned ==
    \/ promo.pc \in {"returned", "failed"}
    \/ demux.pc = "returned"

\* the two-stage pipeline has returned the papers of ids, in some order
TwoStageReturns(ids) ==
    /\ promo.pc \in {"returned", "failed"}
    /\ Range(promo.returned) = ids

\* the greatest member of a non-empty set of numbers
SetMax(S) == CHOOSE x \in S : \A y \in S : x >= y

\* a window whose future raises and a batch whose call raises or whose text
\* cannot be split contribute nothing, every other window still contributes
\* its scores and every other batch its delimited papers, in the result the
\* ranking and the legacy run return; the second stage works on the scores
\* of the windows that did not raise, and when its batch call raises the
\* pipeline returns no paper
FailureIsLocal ==
    /\ rank.pc = "done" =>
          \A p \in 1..rank.N : Range(rank.stage1_scores[p]) = ReturnedScores(p)
    /\ demux.pc = "returned" =>
          \A j \in 1..Len(demux.paper_chunks) :
              /\ Processed(j)
              /\ IF demux.outcome[j].raised \/ Unparseable(j)
                   THEN ContributesNothing(j)
                   ELSE ContributesDelimited(j)
    /\ promo.pc # "unused" =>
          /\ rank.pending = {}
          /\ promo.papers_with_scores = rank.all_paper_dicts
          /\ \A i \in 1..Len(promo.papers_with_scores) :
                LET paper == promo.papers_with_scores[i]
                IN  paper.stage1_score =
                        IF ReturnedScores(paper.paper_id) = {} THEN 0
                        ELSE SetMax(ReturnedScores(paper.paper_id))
    /\ promo.pc = "failed" => promo.returned = <<>>

\* C24: an exception in a ranking window or in an analysis batch, or a text
\* that cannot be split, makes only that window or batch contribute nothing,
\* every other window and batch is processed and contributes its results,
\* and the call of run_batch_analysis returns, whatever has raised.
C24_FailureIsLocal == []FailureIsLocal /\ <>PipelineReturned

\* the first window raised, the second gave paper 2 a score that promoted
\* it, the batch call of the second stage raised, and the pipeline returned
\* no paper
C24_Witness ==
    /\ promo.pc = "failed"
    /\ Len(rank.paper_chunks) = 2
    /\ rank.results[1].raised
    /\ rank.stage1_scores[2] # <<>>
    /\ promo.papers_for_deep_analysis = <<2>>
    /\ promo.returned = <<>>

\* the first batch raised, the second could not be split, and the third
\* still contributed its paper
C24_WitnessLegacy ==
    /\ demux.pc = "returned"
    /\ Len(demux.paper_chunks) = 3
    /\ demux.outcome[1].raised
    /\ Unparseable(2)
    /\ AnalyzedIds = {3}

\* the first window raised, the second still gave a score, and the paper it
\* promoted came back analysed
C24_WitnessWindow ==
    /\ TwoStageReturns({2})
    /\ Len(rank.paper_chunks) = 2
    /\ rank.results[1].raised

\* the outcomes of the repository's analyzer: every window gave [], every
\* paper was promoted with the score 0, and the batch call raised
C24_WitnessRepository ==
    /\ promo.pc = "failed"
    /\ rank.N = 2
    /\ \A k \in DOMAIN rank.results :
          ~rank.results[k].raised /\ rank.results[k].list = <<>>
    /\ Len(promo.papers_for_deep_analysis) = 2

(***************************************************************************)
(* Properties of the disabled set                                          *)
(***************************************************************************)

\* C25: in every reachable state a backend is in the disabled set exactly
\* when its consecutive-failure counter has reached max_consecutive_failures.
C25_DisabledIffAtMax ==
    \A p \in Providers :
        is_disabled(failure_tracker, p)
            <=> failure_tracker.failure_counts[p] >= max_consecutive_failures

(***************************************************************************)
(* Properties of the windows as sets of items                              *)
(***************************************************************************)
\* the step lies between 1 and the window size
StepWithinWindow == win.step_size >= 1 /\ win.step_size <= win.window_size

\* C26: no window contains the same item more than once, whenever the step
\* lies between 1 and the window size, the window that absorbed a merged
\* trailing chunk included.
C26_NoDuplicateInWindow ==
    (win.pc \in {"loop", "done"} /\ StepWithinWindow) =>
        \A k \in 1..Len(win.paper_chunks) :
            \A a, b \in 1..Len(win.paper_chunks[k]) :
                win.paper_chunks[k][a] = win.paper_chunks[k][b] => a = b

\* C27: once the windows are built for N >= 1 items with a step between 1
\* and the window size, every item belongs to at least one window.
C27_EveryItemInSomeWindow ==
    (win.pc = "done" /\ win.N >= 1 /\ StepWithinWindow) =>
        \A item \in 1..win.N :
            \E k \in 1..Len(win.paper_chunks) :
                \E a \in 1..Len(win.paper_chunks[k]) :
                    win.paper_chunks[k][a] = item

\* the windows do not overlap and the trailing chunk was merged: its items
\* are in the last window only
C27_Witness ==
    /\ win.pc = "done"
    /\ win.i < win.N
    /\ win.step_size = win.window_size
    /\ Len(win.paper_chunks) >= 2
    /\ Last(win.paper_chunks)[Len(Last(win.paper_chunks))] = win.N

\* overlapping windows built to the end of the range without a merge
C27_WitnessOverlap ==
    /\ win.pc = "done"
    /\ win.i >= win.N
    /\ win.step_size >= 1 /\ win.step_size < win.window_size
    /\ Len(win.paper_chunks) >= 3

(***************************************************************************)
(* Properties of the counters of the parallel analyzer                     *)
(***************************************************************************)
\* C28: when analyze_papers_parallel returns for n papers,
\* successful_analyses equals the number of returned results and
\* successful_analyses + failed_analyses = n, under every interleaving of
\* the analysis workers.
C28_CountersMatchResults ==
    pool.pc = "returned" =>
        /\ pool.successful_analyses = Len(pool.results)
        /\ pool.successful_analyses + pool.failed_analyses = pool.n

(***************************************************************************)
(* Properties of what the selector takes for a success                     *)
(***************************************************************************)
\* C29: the selector records a success and returns a backend's outcome only
\* when that backend produced an analysis: a call that ended with the
\* outcome of a backend holds an analysis, and every success it recorded is
\* that of the backend whose analysis it returns.
C29_SuccessOnlyWithAnalysis ==
    \A c \in Callers :
        /\ (call[c].pc = "done" /\ call[c].result.provider \in Providers)
               => call[c].result.analysis = "analysis"
        /\ \A k \in 1..Len(call[c].recorded) :
               call[c].recorded[k][2] = "success"
                   => /\ call[c].result.provider = call[c].recorded[k][1]
                      /\ call[c].result.analysis = "analysis"

(***************************************************************************)
(* Termination of the parallel analyzer                                    *)
(***************************************************************************)
\* the call has returned, every lifecycle has returned and been collected,
\* and every worker that had to wait for its download was served
AllLifecyclesCompleted ==
    /\ pool.pc = "returned"
    /\ \A i \in 1..pool.n :
         /\ pool.life[i] = "collected"
         /\ pool.papers_dir =>
                \/ "fetch_done" \in Range(pool.events[i])
                \/ pool.events[i] = SubmitRefused

\* C30: with max_workers >= 1, when every download, backend call and delete
\* task ends, the analysis eventually returns with every lifecycle
\* completed; a worker that waits for its download is served by the I/O
\* pool, so the two pools do not deadlock.
C30_EventuallyReturns == (pool.max_workers >= 1) => <>AllLifecyclesCompleted

\* the call has returned after every paper was downloaded and analysed and
\* its delete task submitted, with more papers than analysis threads
C30_Witness ==
    /\ AllLifecyclesCompleted
    /\ pool.max_workers >= 1
    /\ pool.n > pool.max_workers
    /\ \A i \in 1..pool.n : pool.events[i] = WithDownload

\* a slow backend call holds its own thread only: a paper submitted after it
\* is already collected
C30_WitnessSlowItem ==
    /\ pool.pc = "collect"
    /\ \E i, j \in 1..pool.n :
         /\ i < j
         /\ pool.life[i] = "analyzing"
         /\ pool.life[j] = "collected"

====
